---- MODULE Spec2Model ----
(***************************************************************************)
(* Model of the extraction -> audit -> handoff pipeline:                   *)
(*   - the Audit Client (services/ai_auditor/ai_auditor.py),               *)
(*   - the queue workers (services/pdf-processor, services/ai-auditor),    *)
(*   - the shared queue (shared/tasks.py).                                 *)
(***************************************************************************)
EXTENDS Integers, Sequences, FiniteSets, TLC

\* ------------------------------------------------------------------------
\* Bounds of the model
\* ------------------------------------------------------------------------
MaxClaims == 2

MaxReviews == 1

MaxDocs == 1

MaxInject == 1

\* entries in one metric list
MaxEntries == 2

\* claims beyond the cap in a list to bound
MaxOver == 1

\* pages that carry generic metrics
MaxPages == 4

\* characters in a number as it stands in the text or in a table cell
MaxChars == 3

\* words in the context of a claim
MaxWords == 4

MaxSentences == 30

\* longest whitespace run inside a captured unit spelling
MaxGap == 2

\* ------------------------------------------------------------------------
\* Program constants
\* ------------------------------------------------------------------------
\* a retry budget of one attempt more
max_retries_off_by_one == 3 + 1

\* ai_auditor.py:196
max_retries == 3

RAW_LIMIT == 500

HTTP_TIMEOUT == 30

MAX_CLAIMS == 15

REDUCE_THRESHOLD == 20

GENERIC_CAP == 50

MIN_TARGET_YEAR == 2020

MAX_TARGET_YEAR == 2100

CURRENT_YEAR == 2026

\* ------------------------------------------------------------------------
\* JSON values.  A number is kept in tenths (n = 10 * value) so that a
\* float such as 3.5 is representable; k is the Python type of the value.
\* ------------------------------------------------------------------------
JNull == [k |-> "null", n |-> 0]

JInt(i) == [k |-> "int", n |-> 10 * i]

JFloat(tenths) == [k |-> "float", n |-> tenths]

JBool(b) == [k |-> "bool", n |-> IF b THEN 10 ELSE 0]

JStr == [k |-> "str", n |-> 0]

\* isinstance(v, (int, float)): bool is a subclass of int
IsNumber(v) == v.k \in {"int", "float", "bool"}

\* 1 <= v <= 5
InScoreRange(v) == 10 <= v.n /\ v.n <= 50

Min(a, b) == IF a <= b THEN a ELSE b

\* ------------------------------------------------------------------------
\* Claims handed to the Audit Client
\* ------------------------------------------------------------------------
ClientKeywords == {"net zero", "renewable energy"}

ClientClaims == [claim : ClientKeywords, page : {1}]

SeqsUpTo(S, n) == UNION {[1..k -> S] : k \in 0..n}

ClaimLists == SeqsUpTo(ClientClaims, MaxClaims)

\* ------------------------------------------------------------------------
\* Mappings: the parsed service response and the AuditResult share a shape.
\*   type  : what json.loads produced ("none" = could not decode)
\*   keys  : the keys present (for a str / list: what `key in parsed` says)
\*   overall_summary : the text as a sequence of tokens (f-string pieces)
\*   claim_reviews   : [is_list, items]
\*   raw_response    : length of the stored copy of the raw text
\* ------------------------------------------------------------------------
ResultKeys == {"overall_score", "overall_summary", "claim_reviews"}

ReviewKeys == {"claim", "page", "score", "reason", "citations"}

COULD_NOT_EVALUATE == "Could not evaluate due to processing error"

MkReview(isd, ks, sc) ==
    [is_dict |-> isd, keys |-> ks, claim |-> "net zero", page |-> 1,
     score |-> sc, reason |-> "service reason"]

MkReviews(isl, items) == [is_list |-> isl, items |-> items]

MkParsed(ty, ks, os, sm, rv) ==
    [type |-> ty, keys |-> ks, overall_score |-> os, overall_summary |-> sm,
     claim_reviews |-> rv, raw_response |-> 0]

PNone == MkParsed("none", {}, JNull, <<>>, MkReviews(TRUE, <<>>))

NoResult == MkParsed("unset", {}, JNull, <<>>, MkReviews(TRUE, <<>>))

\* ------------------------------------------------------------------------
\* What the reasoning service can answer
\* ------------------------------------------------------------------------
ScoreVals ==
    {JNull, JInt(0), JInt(1), JInt(5), JInt(6), JFloat(35), JBool(TRUE), JStr}

SvcReviews ==
    { MkReview(TRUE, ReviewKeys, JInt(4)),
      MkReview(TRUE, ReviewKeys, JFloat(45)),
      MkReview(TRUE, ReviewKeys, JNull),
      MkReview(TRUE, ReviewKeys \ {"score"}, JNull),
      MkReview(TRUE, ReviewKeys \ {"claim"}, JInt(4)),
      MkReview(FALSE, {}, JNull) }

SvcReviewVals ==
    {MkReviews(TRUE, s) : s \in SeqsUpTo(SvcReviews, MaxReviews)}
        \cup {MkReviews(FALSE, <<>>)}

SvcSummary == <<"service summary">>

\* a JSON value that is not text (null, a number, a mapping) where text is expected
NOT_TEXT == "<not text>"

\* `x[:100]` is defined for a str, and raises TypeError for null or a number
Sliceable(tokens) == \A i \in 1..Len(tokens) : tokens[i] # NOT_TEXT

\* {"overall_score": 3, "overall_summary": null, "claim_reviews": []}
NullSummaryDict == MkParsed("dict", ResultKeys, JInt(3), <<NOT_TEXT>>, MkReviews(TRUE, <<>>))

\* bool(x) of a JSON value: null, 0, 0.0 and false are falsy
Truthy(v) == v.k # "null" /\ v.n # 0

\* the one-review list whose review is well-formed
OneGoodReview == MkReviews(TRUE, <<MkReview(TRUE, ReviewKeys, JInt(4))>>)

SvcDicts ==
    {MkParsed("dict", ResultKeys, os, SvcSummary, rv) :
        os \in ScoreVals, rv \in {MkReviews(TRUE, <<>>), OneGoodReview}}
    \cup
    {MkParsed("dict", ResultKeys, JInt(3), SvcSummary, rv) : rv \in SvcReviewVals}
    \cup
    {NullSummaryDict,
     MkParsed("dict", ResultKeys \ {"overall_summary"}, JInt(3), <<>>, OneGoodReview),
     MkParsed("dict", ResultKeys \ {"claim_reviews"}, JInt(3), SvcSummary, MkReviews(TRUE, <<>>)),
     MkParsed("dict", ResultKeys \ {"overall_score"}, JNull, SvcSummary, OneGoodReview)}

\* decoded values that are not mappings
SvcNonDicts ==
    { MkParsed("falsy", {}, JNull, <<>>, MkReviews(TRUE, <<>>)),
      MkParsed("number", {}, JNull, <<>>, MkReviews(TRUE, <<>>)),
      MkParsed("list", {}, JNull, <<>>, MkReviews(TRUE, <<>>)),
      MkParsed("str", {}, JNull, <<>>, MkReviews(TRUE, <<>>)) }

\* A raw response text: its length after strip(), and what each of the three
\* decoding attempts of parse_ai_json would obtain from it (PNone = fails).
MkText(len, d, f, b) == [len |-> len, direct |-> d, fenced |-> f, brace |-> b]

GoodDict == MkParsed("dict", ResultKeys, JInt(5), SvcSummary, MkReviews(TRUE, <<>>))

BadDict == MkParsed("dict", ResultKeys, JInt(6), SvcSummary, MkReviews(TRUE, <<>>))

SvcTexts ==
    {MkText(120, p, PNone, PNone) : p \in SvcDicts \cup SvcNonDicts}
    \cup {MkText(l, PNone, PNone, PNone) : l \in {7, RAW_LIMIT, RAW_LIMIT + 300}}
    \cup {MkText(140, PNone, f, b) : f \in {PNone, GoodDict}, b \in {PNone, BadDict}}

NoText == MkText(0, PNone, PNone, PNone)

ERROR_NOT_A_MAPPING == "<error is not a mapping>"

ErrorMsgs ==
    {"Quota exceeded for model", "Rate limit reached", "Failed to generate content",
     "Internal error", "Unknown error", ERROR_NOT_A_MAPPING}

\* "quota" in error_msg.lower() or "rate" in error_msg.lower()
HasRateWording(msg) ==
    msg \in {"Quota exceeded for model", "Rate limit reached", "Failed to generate content"}

MkOutcome(kind, status, msg, text) ==
    [kind |-> kind, status |-> status, msg |-> msg, text |-> text]

Outcomes ==
    {MkOutcome(k, 0, "", NoText) :
        k \in {"timeout", "request_exception", "exception",
               "no_candidates", "invalid_structure", "empty_parts"}}
    \cup {MkOutcome("http_error", s, "", NoText) : s \in {429, 500}}
    \cup {MkOutcome("api_error", 200, m, NoText) : m \in ErrorMsgs}
    \cup {MkOutcome("text", 200, "", t) : t \in SvcTexts}

\* ------------------------------------------------------------------------
\* parse_ai_json: direct decode, else the fenced code block, else the first
\* brace-delimited span, else None
\* ------------------------------------------------------------------------
parse_ai_json(raw_text) ==
    IF raw_text.direct.type # "none" THEN raw_text.direct
    ELSE IF raw_text.fenced.type # "none" THEN raw_text.fenced
    ELSE IF raw_text.brace.type # "none" THEN raw_text.brace
    ELSE PNone

\* ------------------------------------------------------------------------
\* validate_ai_response
\* ------------------------------------------------------------------------
ValidReview(review) ==
    /\ review.is_dict
    /\ "claim" \in review.keys
    /\ "score" \in review.keys
    /\ IsNumber(review.score)
    /\ InScoreRange(review.score)

validate_ai_response(response) ==
    /\ response.type = "dict"
    /\ IsNumber(response.overall_score)
    /\ InScoreRange(response.overall_score)
    /\ response.claim_reviews.is_list
    /\ \A i \in 1..Len(response.claim_reviews.items) :
           ValidReview(response.claim_reviews.items[i])

\* ------------------------------------------------------------------------
\* create_fallback_response(claims, error_msg); error_msg is a token sequence
\* ------------------------------------------------------------------------
FallbackReview(claim) ==
    [is_dict |-> TRUE, keys |-> ReviewKeys, claim |-> claim.claim,
     page |-> claim.page, score |-> JNull, reason |-> COULD_NOT_EVALUATE]

\* a fallback that drops the per-claim reviews
create_fallback_response_no_reviews(claims, error_msg) ==
    [type |-> "dict", keys |-> ResultKeys, overall_score |-> JNull,
     overall_summary |-> <<"Audit failed: ">> \o error_msg,
     claim_reviews |-> MkReviews(TRUE, <<>>), raw_response |-> 0]

create_fallback_response(claims, error_msg) ==
    [type |-> "dict", keys |-> ResultKeys, overall_score |-> JNull,
     overall_summary |-> <<"Audit failed: ">> \o error_msg,
     claim_reviews |-> MkReviews(TRUE, [i \in 1..Len(claims) |-> FallbackReview(claims[i])]),
     raw_response |-> 0]

\* the partial result of the last attempt (ai_auditor.py:244-249)
PartialResult(raw_text) ==
    [type |-> "dict", keys |-> ResultKeys \cup {"raw_response"}, overall_score |-> JNull,
     overall_summary |-> <<"Failed to parse AI response">>,
     claim_reviews |-> MkReviews(TRUE, <<>>),
     raw_response |-> Min(raw_text.len, RAW_LIMIT)]

\* the empty-audit result of the callers (worker.py:90-94, ai_auditor.py:425-429)
EmptyAudit ==
    [type |-> "dict", keys |-> ResultKeys, overall_score |-> JNull,
     overall_summary |-> <<"No sustainability claims found in document">>,
     claim_reviews |-> MkReviews(TRUE, <<>>), raw_response |-> 0]

\* ------------------------------------------------------------------------
\* One iteration of the retry loop of call_gemini_ai.
\* Branch(o): which branch of the loop body the service outcome o takes.
\* ------------------------------------------------------------------------
Branch(o) ==
    CASE o.kind = "http_error" ->
            IF o.status = 429 THEN "http_429" ELSE "http_other"
      [] o.kind = "timeout" -> "timeout"
      [] o.kind = "request_exception" -> "transport"
      [] o.kind = "exception" -> "unexpected"
      [] o.kind = "api_error" ->
            IF o.msg = ERROR_NOT_A_MAPPING THEN "unexpected"
            ELSE IF HasRateWording(o.msg) THEN "api_rate"
            ELSE "api_other"
      [] o.kind = "no_candidates" -> "no_candidates"
      [] o.kind = "invalid_structure" -> "invalid_structure"
      [] o.kind = "empty_parts" -> "unexpected"
      [] o.kind = "text" ->
            LET parsed == parse_ai_json(o.text) IN
            IF parsed.type \in {"none", "falsy"} THEN "parse_failure"
            ELSE IF parsed.type = "number" THEN "unexpected"
            ELSE IF ~ ({"overall_score", "claim_reviews"} \subseteq parsed.keys)
                 THEN "parse_failure"
            ELSE IF validate_ai_response(parsed) THEN "valid"
            ELSE "validation_failure"

\* str(e) of an unexpected error, as a token
ErrorText(o) ==
    CASE o.kind = "exception" -> "service raised"
      [] o.kind = "api_error" -> "'str' object has no attribute 'get'"
      [] o.kind = "empty_parts" -> "list index out of range"
      [] OTHER -> "argument of type 'int' is not iterable"

Continue(wait) == [ret |-> FALSE, raised |-> FALSE, result |-> NoResult, wait |-> wait]

Return(r) == [ret |-> TRUE, raised |-> FALSE, result |-> r, wait |-> 0]

Raise == [ret |-> TRUE, raised |-> TRUE, result |-> NoResult, wait |-> 0]

\* a retry that sleeps after the last attempt too
RetryAfter_sleeps_on_last(attempt, wait) == Continue(wait)

RetryAfter(attempt, wait) == IF attempt < max_retries - 1 THEN Continue(wait) ELSE Continue(0)

\* an error-body handler whose backoff does not grow with the attempt
OnApiError_flat_backoff(attempt, claims, o) ==
    IF HasRateWording(o.msg) /\ attempt < max_retries - 1
    THEN Continue(10)
    ELSE Return(create_fallback_response(claims, <<"API error: ", o.msg>>))

\* `if "error" in result:` (lines 205-217)
OnApiError(attempt, claims, o) ==
    IF HasRateWording(o.msg) /\ attempt < max_retries - 1
    THEN Continue((attempt + 1) * 10)
    ELSE Return(create_fallback_response(claims, <<"API error: ", o.msg>>))

\* lines 220-222
OnNoCandidates(claims) ==
    Return(create_fallback_response(claims, <<"No response candidates">>))

\* lines 225-227
OnInvalidStructure(claims) ==
    Return(create_fallback_response(claims, <<"Invalid response structure">>))

\* a loop that asks again after a response that passed validation
OnText_retries_valid(attempt, claims, o) ==
    LET b == Branch(o) IN
    IF b = "valid" /\ attempt = max_retries - 1 THEN Return(parse_ai_json(o.text))
    ELSE IF b = "parse_failure" /\ attempt = max_retries - 1
    THEN Return(PartialResult(o.text))
    ELSE RetryAfter(attempt, 2)

\* lines 229-253: parse, validate, return or wait before the retry
OnText(attempt, claims, o) ==
    LET b == Branch(o) IN
    IF b = "valid" THEN Return(parse_ai_json(o.text))
    ELSE IF b = "parse_failure" /\ attempt = max_retries - 1
    THEN Return(PartialResult(o.text))
    ELSE RetryAfter(attempt, 2)

\* an HTTPError handler without the early return of lines 263-265
OnHTTPError_no_rate_limit_return(attempt, claims, o) ==
    IF o.status = 429
    THEN IF attempt < max_retries - 1 THEN Continue((attempt + 1) * 15) ELSE Continue(0)
    ELSE RetryAfter(attempt, 3)

\* except requests.exceptions.HTTPError (lines 255-269)
OnHTTPError(attempt, claims, o) ==
    IF o.status = 429
    THEN IF attempt < max_retries - 1
         THEN Continue((attempt + 1) * 15)
         ELSE Return(create_fallback_response(claims, <<"Rate limit exceeded">>))
    ELSE RetryAfter(attempt, 3)

\* a timeout handler with the backoff of the parse failures
OnTimeout_short_backoff(attempt) == RetryAfter(attempt, 2)

\* except requests.exceptions.Timeout (lines 270-273)
OnTimeout(attempt) == RetryAfter(attempt, 3)

\* except requests.exceptions.RequestException (lines 274-277)
OnRequestException(attempt) == RetryAfter(attempt, 3)

\* an `except Exception` that sleeps and retries like the transport errors
OnException_retries(attempt, claims, o) == RetryAfter(attempt, 3)

\* except Exception (lines 278-280)
OnException(attempt, claims, o) ==
    Return(create_fallback_response(claims, <<"Unexpected error: ", ErrorText(o)>>))

AttemptStep(attempt, claims, o) ==
    LET b == Branch(o) IN
    CASE b \in {"api_rate", "api_other"} -> OnApiError(attempt, claims, o)
      [] b = "no_candidates" -> OnNoCandidates(claims)
      [] b = "invalid_structure" -> OnInvalidStructure(claims)
      [] b \in {"valid", "validation_failure", "parse_failure"} -> OnText(attempt, claims, o)
      [] b \in {"http_429", "http_other"} -> OnHTTPError(attempt, claims, o)
      [] b = "timeout" -> OnTimeout(attempt)
      [] b = "transport" -> OnRequestException(attempt)
      [] b = "unexpected" -> OnException(attempt, claims, o)

\* the return after the loop (ai_auditor.py:282)
LoopExhausted(claims) == create_fallback_response(claims, <<"Max retries exceeded">>)

\* ------------------------------------------------------------------------
\* call_gemini_ai as a function of the outcomes the service gives to the
\* successive requests: the result, the requests sent and the sleeps made.
\* ------------------------------------------------------------------------
RECURSIVE CallFrom(_, _, _, _)
CallFrom(attempt, claims, outs, waits) ==
    IF attempt >= max_retries \/ attempt >= Len(outs)
    THEN [result |-> LoopExhausted(claims), requests |-> attempt, waits |-> waits, raised |-> FALSE]
    ELSE LET st == AttemptStep(attempt, claims, outs[attempt + 1]) IN
         IF st.ret
         THEN [result |-> st.result, requests |-> attempt + 1, waits |-> waits, raised |-> st.raised]
         ELSE CallFrom(attempt + 1, claims, outs,
                       IF st.wait > 0 THEN Append(waits, st.wait) ELSE waits)

call_gemini_ai(claims, outs) == CallFrom(0, claims, outs, <<>>)

\* ------------------------------------------------------------------------
\* Claim bounding
\* ------------------------------------------------------------------------
priority(keyword) ==
    CASE keyword = "net zero" -> 1
      [] keyword = "carbon neutral" -> 2
      [] keyword = "zero emissions" -> 3
      [] keyword = "renewable energy" -> 4
      [] OTHER -> 99

\* the sort key (priority.get(claim, 99), page), compared lexicographically
KeyLE(a, b) ==
    \/ priority(a.claim) < priority(b.claim)
    \/ priority(a.claim) = priority(b.claim) /\ a.page <= b.page

Take(s, n) == SubSeq(s, 1, Min(n, Len(s)))

\* sorted() is stable: x goes after every element whose key is <= its own
InsertSorted(sorted, x) ==
    LET k == Cardinality({i \in 1..Len(sorted) : KeyLE(sorted[i], x)}) IN
    SubSeq(sorted, 1, k) \o <<x>> \o SubSeq(sorted, k + 1, Len(sorted))

RECURSIVE SortedClaims(_)
SortedClaims(claims) ==
    IF claims = <<>> THEN <<>>
    ELSE InsertSorted(SortedClaims(SubSeq(claims, 1, Len(claims) - 1)), claims[Len(claims)])

should_reduce_claims(claims) == Len(claims) > REDUCE_THRESHOLD

prioritize_claims(claims, max_claims) ==
    IF Len(claims) <= max_claims THEN claims
    ELSE Take(SortedClaims(claims), max_claims)

\* ------------------------------------------------------------------------
\* Documents, tasks, files
\* ------------------------------------------------------------------------
\* document ids: the pipeline uploads the first MaxDocs of them, the
\* two-document scenario one more
Docs == 1..(MaxDocs + 1)

\* an id no stored document has
NO_SUCH_DOC == MaxDocs + 2

QueueNames == {"pdf_processing", "ai_audit", "embeddings"}

AllClaims == <<[claim |-> "renewable energy", page |-> 1], [claim |-> "net zero", page |-> 1],
               [claim |-> "net zero", page |-> 1]>>

\* what a document holds: whether pdfplumber can open it, and the claim
\* occurrences its pages yield
PdfContents ==
    {[openable |-> FALSE, claims |-> <<>>]}
    \cup {[openable |-> TRUE, claims |-> Take(AllClaims, k)] : k \in {0, MaxClaims}}

NoPdf == [present |-> FALSE, openable |-> FALSE, claims |-> <<>>]

\* the upload form: file name, optional company, optional year ("" / 0 = not given)
UploadForms ==
    { [filename |-> "Acme_Corp_2024.pdf", company |-> "", year |-> 0],
      [filename |-> "report.pdf", company |-> "ACME Corp.", year |-> 2024] }

normalize_company_name(name) ==
    CASE name = "" -> "Unknown"
      [] name = "ACME Corp." -> "Acme Corp"
      [] name = "Acme Corp" -> "Acme Corp"
      [] name = "Beta" -> "Beta"
      [] OTHER -> "Unknown"

extract_company_year_from_filename(filename) ==
    CASE filename = "Acme_Corp_2024.pdf" -> [company |-> "Acme Corp", year |-> 2024]
      [] OTHER -> [company |-> "Unknown", year |-> CURRENT_YEAR]

\* /data/intermediate_json/<company>_<year>.json and
\* /data/processed_json/<company>_<year>.json, named by (company, year)
FileNames == [company : {"Acme Corp", "Beta", "Unknown"}, year : {2024, CURRENT_YEAR}]

NoPath == [company |-> "", year |-> 0]

safe_filename(company, year) == [company |-> company, year |-> year]

BlankTask ==
    [keys |-> {}, id |-> 0, filename |-> "", path |-> 0, company |-> "", year |-> 0,
     metadata_source |-> "", document_id |-> 0, intermediate_path |-> NoPath,
     audit_path |-> NoPath]

\* the task upload_pdf enqueues (api/src/main.py:99-107)
UploadTask(doc_id, form) ==
    [BlankTask EXCEPT
        !.keys = {"id", "filename", "path", "uploaded_at", "company", "year", "metadata_source"},
        !.id = doc_id, !.filename = form.filename, !.path = doc_id,
        !.company = form.company, !.year = form.year,
        !.metadata_source = IF form.company # "" /\ form.year # 0
                            THEN "api_provided" ELSE "filename_parsed"]

\* tasks put on a queue by something other than the pipeline: without the
\* fields the worker needs, or naming a file that does not exist
ForeignTasks(q) ==
    IF q = "pdf_processing"
    THEN {[BlankTask EXCEPT !.keys = {"filename"}, !.filename = "report.pdf"],
          [BlankTask EXCEPT !.keys = {"id", "path"}, !.id = NO_SUCH_DOC, !.path = NO_SUCH_DOC]}
    ELSE {[BlankTask EXCEPT !.keys = {"id", "company", "year"}, !.id = NO_SUCH_DOC,
                            !.company = "Beta", !.year = 2024],
          [BlankTask EXCEPT !.keys = {"document_id", "intermediate_path", "company", "year"},
                            !.document_id = NO_SUCH_DOC, !.company = "Beta", !.year = 2024,
                            !.intermediate_path = safe_filename("Beta", 2024)]}

\* an evidence record (intermediate JSON) or an audit record (processed JSON)
NoFile ==
    [present |-> FALSE, document_id |-> 0, company |-> "", year |-> 0,
     claims |-> <<>>, processing_error |-> FALSE, ai_summary |-> NoResult]

\* process_pdf: the evidence record of a document; a document that cannot be
\* opened gives the empty record tagged with processing_error
process_pdf(pdf) ==
    IF pdf.openable
    THEN [NoFile EXCEPT !.present = TRUE, !.claims = pdf.claims]
    ELSE [NoFile EXCEPT !.present = TRUE, !.claims = <<>>, !.processing_error = TRUE]

\* ------------------------------------------------------------------------
\* State
\* ------------------------------------------------------------------------
VARIABLES
    \* one call of call_gemini_ai, request by request
    c_claims,   \* the claims argument
    attempt,    \* loop variable of `for attempt in range(max_retries)`
    cpc,        \* "loop" | "returned" | "raised"
    requests,   \* number of requests.post calls made
    waits,      \* the time.sleep durations, in order
    result,     \* the returned AuditResult
    hist,       \* branch taken by each attempt so far
    last        \* the service outcome of the latest attempt

client_vars == <<c_claims, attempt, cpc, requests, waits, result, hist, last>>

VARIABLES
    \* the pipeline
    queue,        \* the Redis lists: queue name -> sequence of tasks
    pdf,          \* /data/raw_pdfs: document id -> the stored document
    intermediate, \* /data/intermediate_json: file name -> evidence record
    processed,    \* /data/processed_json: file name -> audit record
    reports,      \* document ids upserted into company_reports
    error_log,    \* rows of processing_errors: <<document id, error type>>
    wpc,          \* worker -> "idle" | "processing" | "paused" | "stopped" | "crashed"
    held,         \* worker -> the task it dequeued
    injected,     \* number of foreign tasks put on the queues
    last_run,     \* the latest process_task execution: what it returned and enqueued
    sent,         \* per document and queue: how many of its tasks were enqueued
    taken,        \* per document and queue: how many of its tasks were dequeued
    lost,         \* <<document, queue>> of the tasks held by a worker that crashed
    interrupted   \* the workers that received an interrupt signal

track_vars == <<sent, taken, lost, interrupted>>

VARIABLES
    \* a pure function applied on its own
    fn_arg,       \* the argument of the first call
    fn_calls,     \* the names of the functions called, in order
    fn_rets       \* what each call returned; a later call gets the previous return

fn_vars == <<fn_arg, fn_calls, fn_rets>>

pipe_vars == <<queue, pdf, intermediate, processed, reports, error_log, wpc, held,
               injected, last_run, track_vars>>

VARIABLES
    \* the audit step of the worker and of the batch main, on one evidence record
    audit_input,  \* the evidence record read from /data/intermediate_json
    last_audit    \* the audit made of it: claims, whether the client was called, result

audit_vars == <<audit_input, last_audit>>

vars == <<client_vars, pipe_vars, audit_vars, fn_vars>>

ExtractWorkers == {"e1"}

AuditWorkers == {"a1", "a2"}

Workers == ExtractWorkers \cup AuditWorkers

\* one worker instance of each stage
FirstWorkers == {"e1", "a1"}

NoEnq == [q \in QueueNames |-> 0]

\* cause: the step that made the execution fail ("none" if it did not);
\* wrote: the output file of the stage was written; store: the upsert
NoRun ==
    [stage |-> "none", ret |-> "none", enq |-> NoEnq, processing_error |-> FALSE,
     cause |-> "none", wrote |-> FALSE, store |-> "none"]

NoAudit ==
    [by |-> "none", claims |-> <<>>, invoked |-> FALSE, requests |-> 0,
     processing_error |-> FALSE, ai_summary |-> NoResult, raised |-> FALSE]

\* no function applied on its own
IdleFn == fn_arg = <<>> /\ fn_calls = <<>> /\ fn_rets = <<>>

InitPipe ==
    /\ queue = [q \in QueueNames |-> <<>>]
    /\ pdf = [d \in Docs |-> NoPdf]
    /\ intermediate = [f \in FileNames |-> NoFile]
    /\ processed = [f \in FileNames |-> NoFile]
    /\ reports = {}
    /\ error_log = {}
    /\ wpc = [w \in Workers |-> "idle"]
    /\ held = [w \in Workers |-> BlankTask]
    /\ injected = 0
    /\ last_run = NoRun
    /\ sent = [d \in Docs |-> NoEnq]
    /\ taken = [d \in Docs |-> NoEnq]
    /\ lost = {}
    /\ interrupted = {}

\* no audit step under way
IdleAudit ==
    /\ audit_input = NoFile
    /\ last_audit = NoAudit

\* ------------------------------------------------------------------------
\* The answers of the service during one audit of the pipeline: every
\* sequence of outcomes that call_gemini_ai consumes up to its return.
\* ------------------------------------------------------------------------
PipelineOutcomes ==
    { MkOutcome("timeout", 0, "", NoText),
      MkOutcome("text", 200, "", MkText(120, GoodDict, PNone, PNone)),
      MkOutcome("text", 200, "", MkText(120, NullSummaryDict, PNone, PNone)) }

Returns(k, o) == AttemptStep(k, <<>>, o).ret

PipelineOutcomeSeqs ==
    {outs \in SeqsUpTo(PipelineOutcomes, max_retries) :
        /\ outs # <<>>
        /\ \A i \in 1..(Len(outs) - 1) : ~ Returns(i - 1, outs[i])
        /\ Len(outs) = max_retries \/ Returns(Len(outs) - 1, outs[Len(outs)])}

\* ------------------------------------------------------------------------
\* shared/tasks.py and the upload endpoint
\* ------------------------------------------------------------------------
\* every worker listening on the first queue
QueueOf_first_queue(w) == "pdf_processing"

QueueOf(w) == IF w \in ExtractWorkers THEN "pdf_processing" ELSE "ai_audit"

\* enqueue_task pushing the task twice
enqueue_task_twice(q, queue_name, task_data) ==
    [q EXCEPT ![queue_name] = Append(Append(@, task_data), task_data)]

\* enqueue_task: rpush
enqueue_task(q, queue_name, task_data) == [q EXCEPT ![queue_name] = Append(@, task_data)]

\* a stage that hands every task to the embeddings queue
NextQueue_skips_audit(stage) == "embeddings"

\* the queue a stage feeds
NextQueue(stage) == IF stage = "extract" THEN "ai_audit" ELSE "embeddings"

\* a worker loop that puts the task of a failed process_task back on its queue
OnStageFailure_requeues(q, queue_name, task_data) == enqueue_task(q, queue_name, task_data)

\* `return False` and the worker loop's `if not success:` only print: the
\* queues are left as they are
OnStageFailure(q, queue_name, task_data) == q

Enqueued(q_old, q_new) == [n \in QueueNames |-> Len(q_new[n]) - Len(q_old[n])]

\* the document a task is about: document_id from the audit stage on, id before
DocOf(task) ==
    IF "document_id" \in task.keys THEN task.document_id
    ELSE IF "id" \in task.keys THEN task.id ELSE 0

\* sent, after the tasks appended between q_old and q_new are counted
Sent(q_old, q_new) ==
    [d \in Docs |-> [n \in QueueNames |->
        sent[d][n] + Cardinality({i \in (Len(q_old[n]) + 1)..Len(q_new[n]) :
                                     DocOf(q_new[n][i]) = d})]]

\* POST /api/upload: store the document under a fresh id, enqueue its task
upload_pdf(d, form, content) ==
    /\ ~ pdf[d].present
    /\ \A e \in Docs : e < d => pdf[e].present
    /\ pdf' = [pdf EXCEPT ![d] = [present |-> TRUE, openable |-> content.openable,
                                  claims |-> content.claims]]
    /\ queue' = enqueue_task(queue, "pdf_processing", UploadTask(d, form))
    /\ sent' = Sent(queue, queue')
    /\ UNCHANGED <<intermediate, processed, reports, error_log, wpc, held, injected,
                   last_run, client_vars, audit_vars, taken, lost, interrupted, fn_vars>>

\* something else pushes a task on a queue
ForeignEnqueue(q, t) ==
    /\ injected < MaxInject
    /\ injected' = injected + 1
    /\ queue' = enqueue_task(queue, q, t)
    /\ UNCHANGED <<pdf, intermediate, processed, reports, error_log, wpc, held,
                   last_run, client_vars, audit_vars, track_vars, fn_vars>>

\* a pop that leaves the head of the list in place
blpop_keeps_head(q, queue_name) == q

\* redis_client.blpop: the head of the list leaves Redis with the reply
blpop(q, queue_name) == [q EXCEPT ![queue_name] = Tail(@)]

\* a loop whose handler ends the worker
AfterLoopError_exits == "stopped"

\* the worker loop's `except Exception:` prints, sleeps and iterates again
AfterLoopError == "paused"

\* a crash handler that hands the task back to its queue
OnCrash_redelivers(q, queue_name, task_data) == enqueue_task(q, queue_name, task_data)

\* the process dies: nothing runs, the popped task exists nowhere else
OnCrash(q, queue_name, task_data) == q

\* dequeue_task (blpop) in the worker loop: the head of the queue leaves Redis
dequeue_task(w) ==
    /\ wpc[w] = "idle"
    /\ queue[QueueOf(w)] # <<>>
    /\ held' = [held EXCEPT ![w] = Head(queue[QueueOf(w)])]
    /\ queue' = blpop(queue, QueueOf(w))
    /\ wpc' = [wpc EXCEPT ![w] = "processing"]
    /\ taken' = LET d == DocOf(Head(queue[QueueOf(w)])) IN
                IF d \in Docs THEN [taken EXCEPT ![d][QueueOf(w)] = @ + 1] ELSE taken
    /\ UNCHANGED <<pdf, intermediate, processed, reports, error_log, injected,
                   last_run, client_vars, audit_vars, sent, lost, interrupted, fn_vars>>

\* the worker loop's `except Exception: ... time.sleep(5)` is over
WorkerResume(w) ==
    /\ wpc[w] = "paused"
    /\ wpc' = [wpc EXCEPT ![w] = "idle"]
    /\ UNCHANGED <<queue, pdf, intermediate, processed, reports, error_log, held,
                   injected, last_run, client_vars, audit_vars, track_vars, fn_vars>>

\* dequeue_task raises (Redis unreachable, a list element that is not
\* JSON): the same handler catches it
DequeueRaises(w) ==
    /\ wpc[w] = "idle"
    /\ wpc' = [wpc EXCEPT ![w] = AfterLoopError]
    /\ last_run' = [NoRun EXCEPT !.stage = "loop", !.ret = "raised", !.cause = "dequeue"]
    /\ UNCHANGED <<queue, pdf, intermediate, processed, reports, error_log, held,
                   injected, client_vars, audit_vars, track_vars, fn_vars>>

\* KeyboardInterrupt: `break` when it arrives inside the try, out of main()
\* when it arrives during the handler's sleep; a task being processed is dropped
Interrupt(w) ==
    /\ wpc[w] \in {"idle", "processing", "paused"}
    /\ wpc' = [wpc EXCEPT ![w] = "stopped"]
    /\ held' = [held EXCEPT ![w] = BlankTask]
    /\ interrupted' = interrupted \cup {w}
    /\ UNCHANGED <<queue, pdf, intermediate, processed, reports, error_log,
                   injected, last_run, client_vars, audit_vars, sent, taken, lost, fn_vars>>

\* ------------------------------------------------------------------------
\* pdf-processor worker: process_task
\* ------------------------------------------------------------------------
\* company / year of the task, else parsed from the file name (lines 129-144)
Metadata(task) ==
    LET original_filename == IF "filename" \in task.keys THEN task.filename ELSE "<id>.pdf"
        company == IF "company" \in task.keys THEN task.company ELSE ""
        year == IF "year" \in task.keys THEN task.year ELSE 0
        inferred == extract_company_year_from_filename(original_filename)
    IN  IF company # "" /\ year # 0
        THEN [filename |-> original_filename, company |-> normalize_company_name(company),
              year |-> year, source |-> "api_provided"]
        ELSE [filename |-> original_filename,
              company |-> normalize_company_name(IF company # "" THEN company ELSE inferred.company),
              year |-> IF year # 0 THEN year ELSE inferred.year,
              source |-> "filename_parsed"]

FileExists(path) == path \in Docs /\ pdf[path].present

\* _log_error_to_supabase: the row inserted into processing_errors
LoggedError(doc_id, error_type) == error_log \cup {<<doc_id, error_type>>}

\* task['id'] / task['path'] raise KeyError: the loop catches it and sleeps
ExtractRaises(w) ==
    /\ w \in ExtractWorkers /\ wpc[w] = "processing"
    /\ ~ ({"id", "path"} \subseteq held[w].keys)
    /\ wpc' = [wpc EXCEPT ![w] = AfterLoopError]
    /\ last_run' = [NoRun EXCEPT !.stage = "extract", !.ret = "raised", !.cause = "fields"]
    /\ UNCHANGED <<queue, pdf, intermediate, processed, reports, error_log, held,
                   injected, client_vars, audit_vars, track_vars, fn_vars>>

\* `if not os.path.exists(file_path): ... return False`
ExtractFileNotFound(w) ==
    /\ w \in ExtractWorkers /\ wpc[w] = "processing"
    /\ {"id", "path"} \subseteq held[w].keys
    /\ ~ FileExists(held[w].path)
    /\ error_log' = LoggedError(held[w].id, "file_not_found")
    /\ wpc' = [wpc EXCEPT ![w] = "idle"]
    /\ last_run' = [NoRun EXCEPT !.stage = "extract", !.ret = "False",
                                  !.cause = "file_not_found"]
    /\ held' = [held EXCEPT ![w] = BlankTask]
    /\ UNCHANGED <<queue, pdf, intermediate, processed, reports,
                   injected, client_vars, audit_vars, track_vars, fn_vars>>

\* the evidence record process_task saves (lines 174-185)
ExtractResult(task) ==
    LET md == Metadata(task) IN
    [process_pdf(pdf[task.path]) EXCEPT
        !.company = md.company, !.year = md.year, !.document_id = task.id]

\* the task for the next stage (lines 232-243)
AuditTask(task) ==
    LET md == Metadata(task) IN
    [BlankTask EXCEPT
        !.keys = {"id", "filename", "path", "intermediate_path", "company", "year",
                  "document_id", "metadata_source", "processed_at", "claims_count"},
        !.id = task.id, !.filename = md.filename, !.path = task.path,
        !.intermediate_path = safe_filename(md.company, md.year),
        !.company = md.company, !.year = md.year, !.document_id = task.id,
        !.metadata_source = md.source]

\* a process_task that enqueues the ai_audit task whether or not the
\* intermediate JSON was saved
ExtractProcess_enqueues_unsaved(w) ==
    /\ w \in ExtractWorkers /\ wpc[w] = "processing"
    /\ {"id", "path"} \subseteq held[w].keys
    /\ FileExists(held[w].path)
    /\ \E save_ok \in BOOLEAN, push_ok \in BOOLEAN :
         LET task == held[w]
             res == ExtractResult(task)
             output_path == safe_filename(res.company, res.year)
         IN
         /\ intermediate' = IF save_ok THEN [intermediate EXCEPT ![output_path] = res]
                            ELSE intermediate
         /\ queue' = IF push_ok
                     THEN enqueue_task(queue, NextQueue("extract"), AuditTask(task))
                     ELSE OnStageFailure(queue, "pdf_processing", task)
         /\ sent' = Sent(queue, queue')
         /\ error_log' =
               IF ~ save_ok THEN LoggedError(task.id, "save_error")
               ELSE IF ~ push_ok THEN LoggedError(task.id, "enqueue_error")
               ELSE error_log
         /\ last_run' = [stage |-> "extract",
                         ret |-> IF save_ok /\ push_ok THEN "True" ELSE "False",
                         enq |-> Enqueued(queue, queue'),
                         processing_error |-> res.processing_error,
                         cause |-> IF ~ save_ok THEN "save"
                                   ELSE IF ~ push_ok THEN "enqueue" ELSE "none",
                         wrote |-> save_ok, store |-> "none"]
    /\ wpc' = [wpc EXCEPT ![w] = "idle"]
    /\ held' = [held EXCEPT ![w] = BlankTask]
    /\ UNCHANGED <<pdf, processed, reports, injected, client_vars, audit_vars, taken, lost, interrupted, fn_vars>>

\* process_pdf, save the intermediate JSON, enqueue the ai_audit task.
\* save_ok, push_ok: whether the file write and rpush succeed.
ExtractProcess(w) ==
    /\ w \in ExtractWorkers /\ wpc[w] = "processing"
    /\ {"id", "path"} \subseteq held[w].keys
    /\ FileExists(held[w].path)
    /\ \E save_ok \in BOOLEAN, push_ok \in BOOLEAN :
         LET task == held[w]
             res == ExtractResult(task)
             output_path == safe_filename(res.company, res.year)
         IN
         /\ intermediate' = IF save_ok THEN [intermediate EXCEPT ![output_path] = res]
                            ELSE intermediate
         /\ queue' = IF save_ok /\ push_ok
                     THEN enqueue_task(queue, NextQueue("extract"), AuditTask(task))
                     ELSE OnStageFailure(queue, "pdf_processing", task)
         /\ sent' = Sent(queue, queue')
         /\ error_log' =
               IF ~ save_ok THEN LoggedError(task.id, "save_error")
               ELSE IF ~ push_ok THEN LoggedError(task.id, "enqueue_error")
               ELSE error_log
         /\ last_run' = [stage |-> "extract",
                         ret |-> IF save_ok /\ push_ok THEN "True" ELSE "False",
                         enq |-> Enqueued(queue, queue'),
                         processing_error |-> res.processing_error,
                         cause |-> IF ~ save_ok THEN "save"
                                   ELSE IF ~ push_ok THEN "enqueue" ELSE "none",
                         wrote |-> save_ok, store |-> "none"]
    /\ wpc' = [wpc EXCEPT ![w] = "idle"]
    /\ held' = [held EXCEPT ![w] = BlankTask]
    /\ UNCHANGED <<pdf, processed, reports, injected, client_vars, audit_vars, taken, lost, interrupted, fn_vars>>

\* ------------------------------------------------------------------------
\* ai-auditor worker: process_task
\* ------------------------------------------------------------------------
AuditFields == {"document_id", "intermediate_path", "company", "year"}

\* lines 19-22 are outside the try: a missing field raises KeyError
AuditRaises(w) ==
    /\ w \in AuditWorkers /\ wpc[w] = "processing"
    /\ ~ (AuditFields \subseteq held[w].keys)
    /\ wpc' = [wpc EXCEPT ![w] = AfterLoopError]
    /\ last_run' = [NoRun EXCEPT !.stage = "audit", !.ret = "raised", !.cause = "fields"]
    /\ UNCHANGED <<queue, pdf, intermediate, processed, reports, error_log, held,
                   injected, client_vars, audit_vars, track_vars, fn_vars>>

Readable(path) ==
    path \in FileNames /\ intermediate[path].present

\* open / json.load of the intermediate file fails: `except Exception: return False`
AuditReadError(w) ==
    /\ w \in AuditWorkers /\ wpc[w] = "processing"
    /\ AuditFields \subseteq held[w].keys
    /\ ~ Readable(held[w].intermediate_path)
    /\ wpc' = [wpc EXCEPT ![w] = "idle"]
    /\ last_run' = [NoRun EXCEPT !.stage = "audit", !.ret = "False", !.cause = "read"]
    /\ held' = [held EXCEPT ![w] = BlankTask]
    /\ UNCHANGED <<queue, pdf, intermediate, processed, reports, error_log,
                   injected, client_vars, audit_vars, track_vars, fn_vars>>

\* lines 81-84: with a truthy overall_score the worker prints
\* ai_summary.get('overall_summary', 'N/A')[:100]
SummaryPrintRaises(ai_summary) ==
    /\ Truthy(ai_summary.overall_score)
    /\ "overall_summary" \in ai_summary.keys
    /\ ~ Sliceable(ai_summary.overall_summary)

\* lines 64-69: `if len(claims) > 15: claims = claims[:15]`
BoundClaims(claims) ==
    IF Len(claims) > MAX_CLAIMS THEN Take(claims, MAX_CLAIMS) ELSE claims

\* the audit without the `if claims:` test of line 77
WorkerAudit_always_calls(claims_in, outs) ==
    LET claims == BoundClaims(claims_in)
        call == call_gemini_ai(claims, outs)
    IN  [by |-> "worker", claims |-> claims, invoked |-> TRUE, requests |-> call.requests,
         processing_error |-> FALSE, ai_summary |-> call.result,
         raised |-> SummaryPrintRaises(call.result)]

\* lines 64-94: bound the claims, call the client unless there are none
WorkerAudit(claims_in, outs) ==
    LET claims == BoundClaims(claims_in)
        call == call_gemini_ai(claims, outs)
    IN  IF claims # <<>>
        THEN [by |-> "worker", claims |-> claims, invoked |-> TRUE, requests |-> call.requests,
              processing_error |-> FALSE, ai_summary |-> call.result,
              raised |-> SummaryPrintRaises(call.result)]
        ELSE [by |-> "worker", claims |-> claims, invoked |-> FALSE, requests |-> 0,
              processing_error |-> FALSE, ai_summary |-> EmptyAudit, raised |-> FALSE]

\* the audits the worker can make of a claim list, over the service's answers
WorkerAudits(claims_in) == {WorkerAudit(claims_in, outs) : outs \in PipelineOutcomeSeqs}

\* an embeddings task built afresh from the document id and the audit path
EmbeddingsTask_fresh(task, output_path) ==
    [BlankTask EXCEPT !.keys = {"document_id", "audit_path", "audited_at"},
                      !.document_id = task.document_id, !.audit_path = output_path]

\* lines 161-165: {**task, "audit_path": output_path, "audited_at": time.time()}
EmbeddingsTask(task, output_path) ==
    [task EXCEPT !.keys = @ \cup {"audit_path", "audited_at"}, !.audit_path = output_path]

\* an upsert whose failure is not caught
SupabaseStep_propagates(store_ok) ==
    [store |-> IF store_ok THEN "ok" ELSE "failed", proceed |-> store_ok]

\* lines 131-159: the upsert is inside its own try/except, which only prints
SupabaseStep(store_ok) ==
    [store |-> IF store_ok THEN "ok" ELSE "failed", proceed |-> TRUE]

\* the audit record written to /data/processed_json (lines 108-117)
AuditRecord(task, audit) ==
    [NoFile EXCEPT !.present = TRUE, !.company = task.company,
                   !.year = task.year, !.document_id = task.document_id,
                   !.claims = audit.claims, !.ai_summary = audit.ai_summary]

\* load the evidence, audit, save the audit record, store it, enqueue the
\* embeddings task.  audit: the audit made with what the service answers;
\* write_ok, store_ok, push_ok: whether the file write, the upsert and rpush
\* succeed.
AuditProcess(w) ==
    /\ w \in AuditWorkers /\ wpc[w] = "processing"
    /\ AuditFields \subseteq held[w].keys
    /\ Readable(held[w].intermediate_path)
    /\ \E audit \in WorkerAudits(intermediate[held[w].intermediate_path].claims),
          write_ok \in BOOLEAN, store_ok \in BOOLEAN, push_ok \in BOOLEAN :
         LET task == held[w]
             data == intermediate[task.intermediate_path]
             output_path == safe_filename(task.company, task.year)
             output == AuditRecord(task, audit)
             wrote == ~ audit.raised /\ write_ok
             st == SupabaseStep(store_ok)
             ok == wrote /\ st.proceed /\ push_ok
         IN
         /\ processed' = IF wrote THEN [processed EXCEPT ![output_path] = output]
                         ELSE processed
         /\ reports' = IF wrote /\ store_ok THEN reports \cup {task.document_id}
                       ELSE reports
         /\ queue' = IF ok
                     THEN enqueue_task(queue, NextQueue("audit"),
                                       EmbeddingsTask(task, output_path))
                     ELSE OnStageFailure(queue, "ai_audit", task)
         /\ sent' = Sent(queue, queue')
         /\ last_run' = [stage |-> "audit",
                         ret |-> IF ok THEN "True" ELSE "False",
                         enq |-> Enqueued(queue, queue'),
                         processing_error |-> data.processing_error,
                         cause |-> IF audit.raised THEN "service"
                                   ELSE IF ~ write_ok THEN "write"
                                   ELSE IF ~ st.proceed THEN "store"
                                   ELSE IF ~ push_ok THEN "enqueue" ELSE "none",
                         wrote |-> wrote,
                         store |-> IF wrote THEN st.store ELSE "none"]
    /\ wpc' = [wpc EXCEPT ![w] = "idle"]
    /\ held' = [held EXCEPT ![w] = BlankTask]
    /\ UNCHANGED <<pdf, intermediate, error_log, injected, client_vars, audit_vars, taken, lost, interrupted, fn_vars>>

\* ------------------------------------------------------------------------
\* A worker process dying between dequeue_task and enqueue_task
\* ------------------------------------------------------------------------
\* what every crash leaves: the popped task is gone with the process
Crashed(w) ==
    /\ wpc' = [wpc EXCEPT ![w] = "crashed"]
    /\ held' = [held EXCEPT ![w] = BlankTask]
    /\ lost' = lost \cup {<<DocOf(held[w]), QueueOf(w)>>}
    /\ queue' = OnCrash(queue, QueueOf(w), held[w])
    /\ sent' = Sent(queue, queue')

\* the extract worker dies before or after it saved the intermediate JSON
ExtractCrash(w) ==
    /\ w \in ExtractWorkers /\ wpc[w] = "processing"
    /\ \/ intermediate' = intermediate
       \/ /\ {"id", "path"} \subseteq held[w].keys
          /\ FileExists(held[w].path)
          /\ LET res == ExtractResult(held[w]) IN
             intermediate' = [intermediate EXCEPT ![safe_filename(res.company, res.year)] = res]
    /\ Crashed(w)
    /\ UNCHANGED <<pdf, processed, reports, error_log, injected, last_run,
                   client_vars, audit_vars, taken, interrupted, fn_vars>>

\* the audit worker dies before or after it saved the audit record
AuditCrash(w) ==
    /\ w \in AuditWorkers /\ wpc[w] = "processing"
    /\ \/ processed' = processed
       \/ /\ AuditFields \subseteq held[w].keys
          /\ Readable(held[w].intermediate_path)
          /\ \E audit \in WorkerAudits(intermediate[held[w].intermediate_path].claims) :
                /\ ~ audit.raised
                /\ processed' = [processed EXCEPT
                       ![safe_filename(held[w].company, held[w].year)] =
                           AuditRecord(held[w], audit)]
    /\ Crashed(w)
    /\ UNCHANGED <<pdf, intermediate, reports, error_log, injected, last_run,
                   client_vars, audit_vars, taken, interrupted, fn_vars>>

\* the worker process is started again: main() enters its loop
WorkerRestart(w) ==
    /\ wpc[w] = "crashed"
    /\ wpc' = [wpc EXCEPT ![w] = "idle"]
    /\ UNCHANGED <<queue, pdf, intermediate, processed, reports, error_log, held,
                   injected, last_run, client_vars, audit_vars, track_vars, fn_vars>>

\* ------------------------------------------------------------------------
\* ai_auditor.main: one iteration of the loop over /data/intermediate_json
\* ------------------------------------------------------------------------
BatchAudit(data, outs) ==
    LET claims == IF should_reduce_claims(data.claims)
                  THEN prioritize_claims(data.claims, MAX_CLAIMS) ELSE data.claims
        call == call_gemini_ai(claims, outs)
    IN  IF data.processing_error
        THEN [by |-> "batch", claims |-> <<>>, invoked |-> FALSE, requests |-> 0,
              processing_error |-> TRUE,
              ai_summary |-> create_fallback_response(<<>>, <<"PDF processing failed">>),
              raised |-> FALSE]
        ELSE IF claims # <<>>
        THEN [by |-> "batch", claims |-> claims, invoked |-> TRUE, requests |-> call.requests,
              processing_error |-> FALSE, ai_summary |-> call.result, raised |-> FALSE]
        ELSE [by |-> "batch", claims |-> claims, invoked |-> FALSE, requests |-> 0,
              processing_error |-> FALSE, ai_summary |-> EmptyAudit, raised |-> FALSE]

\* what the service answers during the audit of one evidence record
AuditOutcomes ==
    PipelineOutcomes \cup
    { MkOutcome("http_error", 429, "", NoText),
      MkOutcome("exception", 0, "", NoText),
      MkOutcome("text", 200, "", MkText(7, PNone, PNone, PNone)),
      MkOutcome("text", 200, "", MkText(120, BadDict, PNone, PNone)) }

AuditOutcomeSeqs == [1..max_retries -> AuditOutcomes]

\* the evidence records the audit step is applied to
EvidenceRecords ==
    {[NoFile EXCEPT !.present = TRUE, !.company = "Beta", !.year = 2024, !.document_id = 1,
                    !.claims = cl] : cl \in ClaimLists}
    \cup {[NoFile EXCEPT !.present = TRUE, !.company = "Beta", !.year = 2024,
                         !.document_id = 1, !.processing_error = TRUE]}

\* no call of the client under way
IdleClient ==
    /\ c_claims = <<>> /\ attempt = 0 /\ cpc = "idle" /\ requests = 0 /\ waits = <<>>
    /\ result = NoResult /\ hist = <<>> /\ last = MkOutcome("none", 0, "", NoText)

InitAudit ==
    /\ InitPipe
    /\ IdleClient
    /\ IdleFn
    /\ audit_input \in EvidenceRecords /\ last_audit = NoAudit

\* worker.py process_task, lines 64-94, on the record read at lines 32-33
WorkerAuditStep ==
    /\ last_audit.by = "none"
    /\ \E outs \in AuditOutcomeSeqs : last_audit' = WorkerAudit(audit_input.claims, outs)
    /\ UNCHANGED <<audit_input, client_vars, pipe_vars, fn_vars>>

\* ai_auditor.main, lines 353-429, on the record read at lines 341-342
BatchMainStep ==
    /\ last_audit.by = "none"
    /\ \E outs \in AuditOutcomeSeqs : last_audit' = BatchAudit(audit_input, outs)
    /\ UNCHANGED <<audit_input, client_vars, pipe_vars, fn_vars>>

NextAudit == WorkerAuditStep \/ BatchMainStep

SpecAudit == InitAudit /\ [][NextAudit]_vars

Init ==
    /\ InitPipe
    /\ IdleClient
    /\ IdleAudit
    /\ IdleFn

Next ==
    \/ \E d \in 1..MaxDocs, form \in UploadForms, content \in PdfContents :
          upload_pdf(d, form, content)
    \/ \E q \in {"pdf_processing", "ai_audit"} : \E t \in ForeignTasks(q) : ForeignEnqueue(q, t)
    \/ \E w \in FirstWorkers : dequeue_task(w)
    \/ \E w \in FirstWorkers : WorkerResume(w)
    \/ \E w \in FirstWorkers : ExtractRaises(w)
    \/ \E w \in FirstWorkers : ExtractFileNotFound(w)
    \/ \E w \in FirstWorkers : ExtractProcess(w)
    \/ \E w \in FirstWorkers : AuditRaises(w)
    \/ \E w \in FirstWorkers : AuditReadError(w)
    \/ \E w \in FirstWorkers : AuditProcess(w)

Spec == Init /\ [][Next]_vars

\* ------------------------------------------------------------------------
\* deduplicate_metrics
\* ------------------------------------------------------------------------
\* a metric entry: a mapping with some of value / page / unit, or something
\* that is not a mapping.  A missing value or page reads as None like a null
\* one; unit is "" when the key is missing.
MkEntry(isd, v, p, has_unit, u) ==
    [is_dict |-> isd, value |-> v, page |-> p, has_unit |-> has_unit, unit |-> u]

MetricEntries ==
    {MkEntry(FALSE, JNull, JNull, FALSE, "")}
    \cup {MkEntry(TRUE, v, p, FALSE, "") :
             v \in {JNull, JInt(5), JFloat(50), JInt(7)}, p \in {JNull, JInt(1)}}
    \cup {MkEntry(TRUE, v, p, TRUE, u) :
             v \in {JNull, JInt(5), JFloat(50), JInt(7)}, p \in {JNull, JInt(1)},
             u \in {"", "tCO2e"}}

\* Python ==: numbers compare by value (5 == 5.0)
PyEq(a, b) == IF IsNumber(a) /\ IsNumber(b) THEN a.n = b.n ELSE a = b

\* a membership test that tells 5 from 5.0
Seen_same_type(clean, v, p) ==
    \E i \in 1..Len(clean) : clean[i].value = v /\ clean[i].page = p

\* (val, page) in seen
Seen(clean, v, p) ==
    \E i \in 1..Len(clean) : PyEq(clean[i].value, v) /\ PyEq(clean[i].page, p)

\* clean_entry: value and page, the unit only if present and truthy
clean_entry(entry) ==
    IF entry.has_unit /\ entry.unit # ""
    THEN MkEntry(TRUE, entry.value, entry.page, TRUE, entry.unit)
    ELSE MkEntry(TRUE, entry.value, entry.page, FALSE, "")

\* a loop body that puts the entry at the head: clean_list.insert(0, clean_entry)
CleanStep_prepends(clean, entry) ==
    IF ~ entry.is_dict \/ entry.value = JNull \/ entry.page = JNull THEN clean
    ELSE IF Seen(clean, entry.value, entry.page) THEN clean
    ELSE <<clean_entry(entry)>> \o clean

\* one iteration of `for entry in entries` (lines 28-43)
CleanStep(clean, entry) ==
    IF ~ entry.is_dict \/ entry.value = JNull \/ entry.page = JNull THEN clean
    ELSE IF Seen(clean, entry.value, entry.page) THEN clean
    ELSE Append(clean, clean_entry(entry))

RECURSIVE CleanList(_)
CleanList(entries) ==
    IF entries = <<>> THEN <<>>
    ELSE CleanStep(CleanList(SubSeq(entries, 1, Len(entries) - 1)), entries[Len(entries)])

deduplicate_metrics(metrics) == [key \in DOMAIN metrics |-> CleanList(metrics[key])]

\* the combined metrics the function is applied to
MetricBundles ==
    {[scope1_emissions_tco2e |-> s1, generic_metrics |-> g] :
        s1 \in SeqsUpTo(MetricEntries, MaxEntries),
        g \in {<<>>,
               <<MkEntry(TRUE, JInt(5), JInt(1), TRUE, "%")>>,
               <<MkEntry(TRUE, JInt(5), JInt(1), FALSE, ""),
                 MkEntry(TRUE, JInt(5), JInt(1), TRUE, "%")>>}}

InitDedupe ==
    /\ InitPipe
    /\ IdleClient
    /\ IdleAudit
    /\ fn_arg \in MetricBundles /\ fn_calls = <<>> /\ fn_rets = <<>>

\* the latest value: the argument, then each return
Latest == IF fn_rets = <<>> THEN fn_arg ELSE fn_rets[Len(fn_rets)]

\* combined_metrics = deduplicate_metrics(combined_metrics), up to twice
Deduplicate ==
    /\ Len(fn_calls) < 2
    /\ fn_calls' = Append(fn_calls, "deduplicate_metrics")
    /\ fn_rets' = Append(fn_rets, deduplicate_metrics(Latest))
    /\ UNCHANGED <<fn_arg, client_vars, pipe_vars, audit_vars>>

NextDedupe == Deduplicate

SpecDedupe == InitDedupe /\ [][NextDedupe]_vars

\* ------------------------------------------------------------------------
\* Claim bounding on its own
\* ------------------------------------------------------------------------
BoundKeywords == {"net zero", "renewable energy"}

Filler == [claim |-> "carbon neutral", page |-> 3]

\* claim lists just under, at and over the cap
LongClaimLists ==
    {[i \in 1..n |-> IF i = p THEN x ELSE IF i = q THEN y ELSE Filler] :
        n \in (MAX_CLAIMS - 1)..(MAX_CLAIMS + MaxOver),
        p \in {1, 2, MAX_CLAIMS}, q \in {2, MAX_CLAIMS, MAX_CLAIMS - 1 + MaxOver},
        x \in [claim : BoundKeywords, page : {1, 2}],
        y \in [claim : BoundKeywords, page : {1, 2}]}

InitBound ==
    /\ InitPipe
    /\ IdleClient
    /\ IdleAudit
    /\ fn_arg \in LongClaimLists /\ fn_calls = <<>> /\ fn_rets = <<>>

\* ai_auditor.prioritize_claims(claims)
PrioritizeStep ==
    /\ fn_calls = <<>>
    /\ fn_calls' = <<"prioritize_claims">>
    /\ fn_rets' = <<prioritize_claims(fn_arg, MAX_CLAIMS)>>
    /\ UNCHANGED <<fn_arg, client_vars, pipe_vars, audit_vars>>

\* the queue worker's bounding step
WorkerBoundStep ==
    /\ fn_calls = <<>>
    /\ fn_calls' = <<"worker_bound">>
    /\ fn_rets' = <<BoundClaims(fn_arg)>>
    /\ UNCHANGED <<fn_arg, client_vars, pipe_vars, audit_vars>>

NextBound == PrioritizeStep \/ WorkerBoundStep

SpecBound == InitBound /\ [][NextBound]_vars

\* ------------------------------------------------------------------------
\* The audit step on documents with many claims
\* ------------------------------------------------------------------------
\* claim lists from just under the worker's cap to over the batch threshold
ManyClaimLists ==
    {[i \in 1..n |-> IF i = 1 THEN x ELSE Filler] :
        n \in (MAX_CLAIMS - 1)..(REDUCE_THRESHOLD + MaxOver),
        x \in [claim : BoundKeywords, page : {1, 2}]}

InitAuditMany ==
    /\ InitPipe
    /\ IdleClient
    /\ IdleFn
    /\ audit_input \in {[NoFile EXCEPT !.present = TRUE, !.company = "Beta", !.year = 2024,
                                       !.document_id = 1, !.claims = cl] : cl \in ManyClaimLists}
    /\ last_audit = NoAudit

SpecAuditMany == InitAuditMany /\ [][NextAudit]_vars

\* ------------------------------------------------------------------------
\* The size bound on generic metrics
\* ------------------------------------------------------------------------
Max(a, b) == IF a >= b THEN a ELSE b

\* by_page[p]: the entries of page p, in list order
OfPage(metrics, p) ==
    LET OnPage(m) == m.page = p IN SelectSeq(metrics, OnPage)

PagesOf(metrics) == {metrics[i].page : i \in 1..Len(metrics)}

\* `for page in sorted(by_page.keys())`: extend with the page's first
\* samples_per_page entries, break once max_samples are collected
RECURSIVE SampleLoop(_, _, _, _, _)
SampleLoop(metrics, pages, samples_per_page, max_samples, sampled) ==
    IF pages = {} THEN sampled
    ELSE LET page == CHOOSE p \in pages : \A o \in pages : p <= o
             more == sampled \o Take(OfPage(metrics, page), samples_per_page)
         IN  IF Len(more) >= max_samples THEN more
             ELSE SampleLoop(metrics, pages \ {page}, samples_per_page, max_samples, more)

sample_generic_metrics(metrics, max_samples) ==
    IF Len(metrics) <= max_samples THEN metrics
    ELSE LET total_pages == Cardinality(PagesOf(metrics))
             samples_per_page == Max(1, max_samples \div total_pages)
         IN  Take(SampleLoop(metrics, PagesOf(metrics), samples_per_page, max_samples, <<>>),
                  max_samples)

\* ai_auditor.main, lines 389-396
BatchSizeBound(metrics) ==
    IF Len(metrics) > GENERIC_CAP THEN sample_generic_metrics(metrics, GENERIC_CAP)
    ELSE metrics

\* worker.py, lines 60-62
WorkerSizeBound(metrics) ==
    IF Len(metrics) > GENERIC_CAP THEN Take(metrics, GENERIC_CAP) ELSE metrics

\* k entries of page p, with distinct values
PageEntries(p, k) == [i \in 1..k |-> [value |-> i, page |-> p]]

RECURSIVE Concat(_, _, _)
\* the entries of pages lo..hi with counts[p] entries each, ascending or descending
Concat(counts, lo, hi) ==
    IF lo > hi THEN <<>>
    ELSE PageEntries(lo, counts[lo]) \o Concat(counts, lo + 1, hi)

Reverse(s) == [i \in 1..Len(s) |-> s[Len(s) + 1 - i]]

\* deduplicated generic-metric lists: up to MaxPages pages with 0, 1, 15 or
\* 26 entries each, and one entry on each of more pages than the cap; in
\* page order and in reverse order
GenericLists ==
    LET asc == {Concat(counts, 1, MaxPages) : counts \in [1..MaxPages -> {0, 1, 15, 26}]}
                  \cup {[i \in 1..(GENERIC_CAP + 2) |-> [value |-> 1, page |-> i]]}
    IN  asc \cup {Reverse(m) : m \in asc}

InitSample ==
    /\ InitPipe
    /\ IdleClient
    /\ IdleAudit
    /\ fn_arg \in GenericLists /\ fn_calls = <<>> /\ fn_rets = <<>>

BatchSampleStep ==
    /\ fn_calls = <<>>
    /\ fn_calls' = <<"sample_generic_metrics">>
    /\ fn_rets' = <<BatchSizeBound(fn_arg)>>
    /\ UNCHANGED <<fn_arg, client_vars, pipe_vars, audit_vars>>

WorkerSampleStep ==
    /\ fn_calls = <<>>
    /\ fn_calls' = <<"worker_size_bound">>
    /\ fn_rets' = <<WorkerSizeBound(fn_arg)>>
    /\ UNCHANGED <<fn_arg, client_vars, pipe_vars, audit_vars>>

NextSample == BatchSampleStep \/ WorkerSampleStep

SpecSample == InitSample /\ [][NextSample]_vars

\* ------------------------------------------------------------------------
\* processor.py: metrics of one page.  A number is the string the regular
\* expression captured or the table cell holds, as a sequence of characters;
\* "inf", "nan" and "x" stand for those words and for any other letter.
\* ------------------------------------------------------------------------
Digits == {"0", "5"}

CellChars == Digits \cup {",", ".", "-", "inf", "nan", "x"}

CellStrings == SeqsUpTo(CellChars, MaxChars)

\* [\d,]+(?:\.\d+)? : the group captured by the scope patterns
IsScopeCapture(str) ==
    /\ str # <<>>
    /\ \E k \in 1..Len(str) :
          /\ \A i \in 1..k : str[i] \in Digits \cup {","}
          /\ k = Len(str)
             \/ (str[k + 1] = "." /\ k + 2 <= Len(str)
                    /\ \A i \in (k + 2)..Len(str) : str[i] \in Digits)

\* \d{1,3}(?:[,\s]?\d{3})* : one to three digits, then groups of three
\* digits, each after an optional comma
RECURSIVE IsGrouped(_)
IsGrouped(str) ==
    \/ Len(str) \in 1..3 /\ \A i \in 1..Len(str) : str[i] \in Digits
    \/ /\ Len(str) >= 4
       /\ \A i \in (Len(str) - 2)..Len(str) : str[i] \in Digits
       /\ \/ IsGrouped(SubSeq(str, 1, Len(str) - 3))
          \/ str[Len(str) - 3] = "," /\ IsGrouped(SubSeq(str, 1, Len(str) - 4))

\* [\d]{1,3}(?:[,\s]?\d{3})*(?:\.\d+)? : the number of NUMERIC_PATTERN
IsNumericCapture(str) ==
    \/ IsGrouped(str)
    \/ \E k \in 1..(Len(str) - 2) :
          /\ IsGrouped(SubSeq(str, 1, k))
          /\ str[k + 1] = "."
          /\ \A i \in (k + 2)..Len(str) : str[i] \in Digits

\* a parsed number: kind "none" is None; n is the value times 10^MaxChars
NoneNum == [kind |-> "none", n |-> 0]

Without(str, chars) == LET Keep(c) == c \notin chars IN SelectSeq(str, Keep)

RECURSIVE RStrip(_, _)
RStrip(str, c) ==
    IF str # <<>> /\ str[Len(str)] = c THEN RStrip(SubSeq(str, 1, Len(str) - 1), c) ELSE str

RECURSIVE Pow10(_)
Pow10(k) == IF k = 0 THEN 1 ELSE 10 * Pow10(k - 1)

DigitValue(c) == IF c = "5" THEN 5 ELSE 0

RECURSIVE DigitsValue(_)
DigitsValue(ds) ==
    IF ds = <<>> THEN 0
    ELSE 10 * DigitsValue(SubSeq(ds, 1, Len(ds) - 1)) + DigitValue(ds[Len(ds)])

\* float(): sign, digits with at most one point; inf and nan are floats too
PyFloat(str) ==
    LET neg == str # <<>> /\ str[1] = "-"
        body == IF neg THEN Tail(str) ELSE str
        dots == {i \in 1..Len(body) : body[i] = "."}
        ip == IF dots = {} THEN body ELSE SubSeq(body, 1, (CHOOSE i \in dots : TRUE) - 1)
        fp == IF dots = {} THEN <<>>
              ELSE SubSeq(body, (CHOOSE i \in dots : TRUE) + 1, Len(body))
        magnitude == DigitsValue(ip) * Pow10(MaxChars)
                        + DigitsValue(fp) * Pow10(MaxChars - Len(fp))
    IN  IF body = <<"inf">> THEN [kind |-> IF neg THEN "-inf" ELSE "inf", n |-> 0]
        ELSE IF body = <<"nan">> THEN [kind |-> "nan", n |-> 0]
        ELSE IF /\ \A i \in 1..Len(body) : body[i] \in Digits \cup {"."}
                /\ Cardinality(dots) <= 1
                /\ \E i \in 1..Len(body) : body[i] \in Digits
        THEN [kind |-> "num", n |-> IF neg THEN 0 - magnitude ELSE magnitude]
        ELSE NoneNum

\* parse_number: commas and spaces removed, trailing points stripped
parse_number(val) ==
    IF val = <<>> THEN NoneNum
    ELSE PyFloat(RStrip(Without(val, {",", " "}), "."))

\* a filter that keeps every parsed number
KeepMetric_any_number(num) == num.kind # "none"

\* `val is not None and val > 0`
KeepMetric(num) == num.kind = "inf" \/ (num.kind = "num" /\ num.n > 0)

Units == {"", "%", "tCO2", "kg"}

normalize_unit(unit) ==
    CASE unit = "" -> ""
      [] unit = "tCO2" -> "tCO2e"
      [] unit = "%" -> "%"
      [] OTHER -> unit

MkMetric(num, page_num, unit) == [value |-> num, page |-> page_num, unit |-> unit]

\* the metrics of the captures that parse to a kept number, in order
RECURSIVE MetricsOf(_, _)
MetricsOf(captures, page_num) ==
    IF captures = <<>> THEN <<>>
    ELSE LET num == parse_number(Head(captures).val)
             rest == MetricsOf(Tail(captures), page_num)
         IN  IF KeepMetric(num)
             THEN <<MkMetric(num, page_num, Head(captures).unit)>> \o rest
             ELSE rest

\* extract_scope_from_text: the matches of one scope's patterns
extract_scope_from_text(matches, scope, page_num) ==
    LET Mine(m) == m.scope = scope IN
    MetricsOf([i \in 1..Len(SelectSeq(matches, Mine)) |->
                  [val |-> SelectSeq(matches, Mine)[i].val, unit |-> "tCO2e"]], page_num)

ScopeLabels(scope) ==
    IF scope = "scope1" THEN {"scope 1", "direct emission"}
    ELSE {"scope 2", "indirect emission"}

\* extract_scope_from_tables: the cells after the first of the rows whose
\* text names the scope, in tables of two rows or more
RECURSIVE RowsMetrics(_, _, _)
RowsMetrics(rows, scope, page_num) ==
    IF rows = <<>> THEN <<>>
    ELSE LET row == Head(rows)
             cells == Without(row.cells, {<<>>})
         IN  (IF row.label \in ScopeLabels(scope)
              THEN MetricsOf([i \in 1..Len(cells) |-> [val |-> cells[i], unit |-> "tCO2e"]],
                             page_num)
              ELSE <<>>) \o RowsMetrics(Tail(rows), scope, page_num)

extract_scope_from_tables(tables, scope, page_num) ==
    IF tables = <<>> THEN <<>>
    ELSE IF Len(tables[1]) < 2 THEN <<>>
    ELSE RowsMetrics(tables[1], scope, page_num)

extract_generic_metrics(matches, page_num) ==
    MetricsOf([i \in 1..Len(matches) |->
                  [val |-> matches[i].val, unit |-> normalize_unit(matches[i].unit)]], page_num)

\* deduplicate_metrics_on_page: first entry of every (value, unit)
RECURSIVE deduplicate_metrics_on_page(_)
deduplicate_metrics_on_page(metrics) ==
    IF metrics = <<>> THEN <<>>
    ELSE LET before == deduplicate_metrics_on_page(SubSeq(metrics, 1, Len(metrics) - 1))
             m == metrics[Len(metrics)]
         IN  IF \E i \in 1..Len(before) :
                   before[i].value = m.value /\ before[i].unit = m.unit
             THEN before ELSE Append(before, m)

\* process_pdf, lines 381-401: the page_metrics entry of one page
PageMetrics(page) ==
    [page |-> page.page_num,
     scope1_emissions_tco2e |->
        deduplicate_metrics_on_page(
            extract_scope_from_text(page.scope_matches, "scope1", page.page_num)
            \o extract_scope_from_tables(page.tables, "scope1", page.page_num)),
     scope2_emissions_tco2e |->
        deduplicate_metrics_on_page(
            extract_scope_from_text(page.scope_matches, "scope2", page.page_num)
            \o extract_scope_from_tables(page.tables, "scope2", page.page_num)),
     generic_metrics |->
        deduplicate_metrics_on_page(extract_generic_metrics(page.numeric_matches, page.page_num))]

BlankPage == [page_num |-> 1, scope_matches |-> <<>>, tables |-> <<>>, numeric_matches |-> <<>>]

HeaderRow == [label |-> "total", cells |-> <<<<"x">>>>]

\* pages: one with a scope match in the text (and the same number in a
\* table), one with a table row, one with a general number
Pages ==
    {[BlankPage EXCEPT !.scope_matches = <<[scope |-> sc, val |-> v]>>,
                       !.tables = <<<<HeaderRow, [label |-> "scope 1", cells |-> <<v>>]>>>>] :
        sc \in {"scope1", "scope2"}, v \in {c \in CellStrings : IsScopeCapture(c)}}
    \cup {[BlankPage EXCEPT !.tables = <<rows>>] :
            rows \in {<<[label |-> lb, cells |-> <<c>>]>> :
                         lb \in {"scope 1"}, c \in CellStrings}
                     \cup {<<HeaderRow, [label |-> lb, cells |-> <<c>>]>> :
                         lb \in {"scope 1", "indirect emission", "total"}, c \in CellStrings}}
    \cup {[BlankPage EXCEPT !.numeric_matches = <<[val |-> v, unit |-> u]>>] :
            v \in {c \in CellStrings : IsNumericCapture(c)}, u \in Units}

InitPage ==
    /\ InitPipe
    /\ IdleClient
    /\ IdleAudit
    /\ fn_arg \in Pages /\ fn_calls = <<>> /\ fn_rets = <<>>

\* one iteration of `for i, page in enumerate(pdf.pages)`, metrics part
ExtractPageMetrics ==
    /\ fn_calls = <<>>
    /\ fn_calls' = <<"page_metrics">>
    /\ fn_rets' = <<PageMetrics(fn_arg)>>
    /\ UNCHANGED <<fn_arg, client_vars, pipe_vars, audit_vars>>

NextPage == ExtractPageMetrics

SpecPage == InitPage /\ [][NextPage]_vars

\* ------------------------------------------------------------------------
\* processor.py: extract_target_year.  The lower-cased text is a sequence
\* of whitespace-separated tokens: a word, or a number given by its digits.
\* ------------------------------------------------------------------------
Word(w) == [w |-> w, d |-> <<>>]

Number(ds) == [w |-> "", d |-> ds]

\* 20\d{2} at position i of a digit string
Is20dd(ds, i) == i + 3 <= Len(ds) /\ ds[i] = 2 /\ ds[i + 1] = 0

YearAt(ds, i) == 2000 + 10 * ds[i + 2] + ds[i + 3]

\* the positions where (20\d{2}) can match inside the token
YearPositions(tok) == {i \in 1..Len(tok.d) : Is20dd(tok.d, i)}

NoMatch == [found |-> FALSE, year |-> 0]

\* keyword\s+(20\d{2}) with a keyword of one or two words: the leftmost
\* keyword followed by a token that starts with 20dd
AnchoredMatch(text, words) ==
    LET n == Len(words)
        hits == {i \in 1..(Len(text) - n) :
                    /\ \A k \in 1..n : text[i + k - 1] = Word(words[k])
                    /\ Is20dd(text[i + n].d, 1)}
    IN  IF hits = {} THEN NoMatch
        ELSE LET i == CHOOSE h \in hits : \A o \in hits : h <= o
             IN  [found |-> TRUE, year |-> YearAt(text[i + n].d, 1)]

\* keyword.*?(20\d{2}): the leftmost keyword with a 20dd after it, and the
\* first 20dd after that keyword
LazyMatch(text, keyword) ==
    LET hits == {i \in 1..Len(text) :
                    /\ text[i] = Word(keyword)
                    /\ \E j \in (i + 1)..Len(text) : YearPositions(text[j]) # {}}
    IN  IF hits = {} THEN NoMatch
        ELSE LET i == CHOOSE h \in hits : \A o \in hits : h <= o
                 j == CHOOSE h \in (i + 1)..Len(text) :
                         /\ YearPositions(text[h]) # {}
                         /\ \A o \in (i + 1)..(h - 1) : YearPositions(text[o]) = {}
                 p == CHOOSE h \in YearPositions(text[j]) :
                         \A o \in YearPositions(text[j]) : h <= o
             IN  [found |-> TRUE, year |-> YearAt(text[j].d, p)]

\* re.search(pattern, text.lower()) for the seven patterns, in order
PatternMatch(text, k) ==
    CASE k = 1 -> AnchoredMatch(text, <<"by">>)
      [] k = 2 -> AnchoredMatch(text, <<"target", "year">>)
      [] k = 3 -> LazyMatch(text, "achieve")
      [] k = 4 -> LazyMatch(text, "reach")
      [] k = 5 -> LazyMatch(text, "goal")
      [] k = 6 -> LazyMatch(text, "commitment")
      [] OTHER -> LazyMatch(text, "pledge")

\* a check that accepts every year
YearValid_any(year) == TRUE

\* `if 2020 <= year <= 2100`
YearValid(year) == MIN_TARGET_YEAR <= year /\ year <= MAX_TARGET_YEAR

\* `for pattern in patterns`: the first pattern whose match is a valid year
RECURSIVE TargetYearFrom(_, _)
TargetYearFrom(text, k) ==
    IF k > 7 THEN JNull
    ELSE LET m == PatternMatch(text, k) IN
         IF m.found /\ YearValid(m.year) THEN JInt(m.year)
         ELSE TargetYearFrom(text, k + 1)

extract_target_year(text) == TargetYearFrom(text, 1)

\* the target-year part of extract_supporting_evidence (lines 190-193)
EvidenceYear(context) ==
    LET target_year == extract_target_year(context) IN
    IF Truthy(target_year)
    THEN [has_target_year |-> TRUE, keys |-> {"target_year"}, target_year |-> target_year]
    ELSE [has_target_year |-> FALSE, keys |-> {}, target_year |-> JNull]

\* the target_year and evidence of claim_obj (lines 425-432)
ClaimYears(context) ==
    [target_year |-> extract_target_year(context), evidence |-> EvidenceYear(context)]

ContextTokens ==
    {Word("by"), Word("target"), Word("year"), Word("goal"), Word("the"),
     Number(<<2, 0, 1, 9>>), Number(<<2, 0, 3, 0>>), Number(<<2, 1, 0, 0>>),
     Number(<<1, 2, 0, 9, 9>>)}

InitYear ==
    /\ InitPipe
    /\ IdleClient
    /\ IdleAudit
    /\ fn_arg \in SeqsUpTo(ContextTokens, MaxWords) /\ fn_calls = <<>> /\ fn_rets = <<>>

ExtractYearStep ==
    /\ fn_calls = <<>>
    /\ fn_calls' = <<"claim_years">>
    /\ fn_rets' = <<ClaimYears(fn_arg)>>
    /\ UNCHANGED <<fn_arg, client_vars, pipe_vars, audit_vars>>

NextYear == ExtractYearStep

SpecYear == InitYear /\ [][NextYear]_vars

\* ------------------------------------------------------------------------
\* processor.py: claim detection on one page.  A claim keyword is one token
\* of the page text.
\* ------------------------------------------------------------------------
CLAIM_KEYWORDS ==
    <<"net zero", "carbon neutral", "zero emissions", "renewable energy", "carbon footprint",
      "sustainability target", "emission reduction", "green energy", "climate neutral">>

\* `kw.lower() in text.lower()`
InText(kw, text) == \E i \in 1..Len(text) : text[i] = Word(kw)

\* `for kw in CLAIM_KEYWORDS: if kw.lower() in text.lower(): ... claims.append(claim_obj)`;
\* a page of a few words is shorter than 50 characters, so the context is
\* the character window, which covers the whole page
RECURSIVE DetectFrom(_, _, _)
DetectFrom(text, page_num, k) ==
    IF k > Len(CLAIM_KEYWORDS) THEN <<>>
    ELSE (IF InText(CLAIM_KEYWORDS[k], text)
          THEN <<[claim |-> CLAIM_KEYWORDS[k], page |-> page_num,
                  target_year |-> extract_target_year(text), context |-> text]>>
          ELSE <<>>) \o DetectFrom(text, page_num, k + 1)

DetectClaims(text, page_num) == DetectFrom(text, page_num, 1)

PageTokens ==
    {Word("net zero"), Word("renewable energy"), Word("the"), Word("by"),
     Number(<<2, 0, 3, 0>>)}

InitDetect ==
    /\ InitPipe
    /\ IdleClient
    /\ IdleAudit
    /\ fn_arg \in SeqsUpTo(PageTokens, MaxWords) /\ fn_calls = <<>> /\ fn_rets = <<>>

DetectStep ==
    /\ fn_calls = <<>>
    /\ fn_calls' = <<"detect_claims">>
    /\ fn_rets' = <<DetectClaims(fn_arg, 1)>>
    /\ UNCHANGED <<fn_arg, client_vars, pipe_vars, audit_vars>>

NextDetect == DetectStep

SpecDetect == InitDetect /\ [][NextDetect]_vars

\* ------------------------------------------------------------------------
\* processor.py: the context of a claim.  A page text is a sequence of
\* sentences, each given by its number of characters (its closing . ! or ?
\* included) and the width of the whitespace that follows it; the keyword
\* first occurs at offset kw_off of sentence kw_sentence.  A context is
\* given by its number of characters.
\* ------------------------------------------------------------------------
CONTEXT_LIMIT == 500

MIN_CONTEXT == 50

WINDOW == 300

KeywordLen == 8

ELLIPSIS == 3

RECURSIVE StartsFrom(_, _, _)
StartsFrom(sentences, i, pos) ==
    IF i > Len(sentences) THEN <<pos>>
    ELSE <<pos>> \o StartsFrom(sentences, i + 1, pos + sentences[i].chars + sentences[i].sep)

\* position of the first character of every sentence, then the text length
StartsOf(sentences) == StartsFrom(sentences, 1, 0)

\* `text.lower().find(claim_keyword.lower())`
ClaimPos(text) == StartsOf(text.sentences)[text.kw_sentence] + text.kw_off

IsSpace(text, starts, pos) ==
    \E i \in 1..Len(text.sentences) :
        /\ starts[i] + text.sentences[i].chars <= pos
        /\ pos < starts[i + 1]

RECURSIVE LeadingSpaces(_, _, _, _)
LeadingSpaces(text, starts, from, to) ==
    IF from < to /\ IsSpace(text, starts, from)
    THEN 1 + LeadingSpaces(text, starts, from + 1, to) ELSE 0

RECURSIVE TrailingSpaces(_, _, _, _)
TrailingSpaces(text, starts, from, to) ==
    IF from < to /\ IsSpace(text, starts, to - 1)
    THEN 1 + TrailingSpaces(text, starts, from, to - 1) ELSE 0

\* `text[start:end].replace("\n", " ").strip()`
extract_claim_context(text, window) ==
    LET starts    == StartsOf(text.sentences)
        claim_pos == starts[text.kw_sentence] + text.kw_off
        start     == Max(0, claim_pos - window)
        end       == Min(starts[Len(text.sentences) + 1], claim_pos + KeywordLen + window)
        lead      == LeadingSpaces(text, starts, start, end)
    IN  [chars |-> end - start - lead - TrailingSpaces(text, starts, start + lead, end),
         by |-> "window"]

\* the loop over `enumerate(sentences)`: current_pos advances by the
\* sentence and one character, whatever the width of the whitespace
RECURSIVE ClaimSentence(_, _, _, _)
ClaimSentence(sentences, claim_pos, idx, current_pos) ==
    IF idx > Len(sentences) THEN 0
    ELSE LET sentence_end == current_pos + sentences[idx].chars
         IN  IF current_pos <= claim_pos /\ claim_pos < sentence_end THEN idx
             ELSE ClaimSentence(sentences, claim_pos, idx + 1, sentence_end + 1)

RECURSIVE JoinedLen(_, _, _)
JoinedLen(sentences, from, to) ==
    IF from > to THEN 0
    ELSE sentences[from].chars + (IF from < to THEN 1 ELSE 0)
         + JoinedLen(sentences, from + 1, to)

\* `if len(context) > 500: context = context[:500] + "..."`
Truncate(n) == IF n > CONTEXT_LIMIT THEN CONTEXT_LIMIT + ELLIPSIS ELSE n

extract_sentence_context(text, num_sentences) ==
    LET claim_sentence_idx == ClaimSentence(text.sentences, ClaimPos(text), 1, 0)
    IN  IF claim_sentence_idx = 0 THEN extract_claim_context(text, WINDOW)
        ELSE [chars |-> Truncate(JoinedLen(text.sentences,
                                            Max(1, claim_sentence_idx - num_sentences),
                                            Min(Len(text.sentences),
                                                claim_sentence_idx + num_sentences))),
              by |-> "sentences"]

\* process_pdf: `context = extract_sentence_context(text, kw, num_sentences=2)`,
\* then the character window when that context is shorter than 50 characters
ClaimContext(text) ==
    LET context == extract_sentence_context(text, 2)
    IN  IF context.chars < MIN_CONTEXT THEN extract_claim_context(text, WINDOW) ELSE context

Run(n, chars, sep) == [i \in 1..n |-> [chars |-> chars, sep |-> sep]]

SentenceChars == {KeywordLen + 1, 40, 250}

RunLens == {0, 2, MaxSentences}

SepWidths == {1, 12}

\* nb sentences, the sentence with the keyword at its start or at its end,
\* na sentences; no whitespace after the last sentence
PageTexts ==
    {[sentences |-> Run(nb, lb, sep) \o <<[chars |-> lk, sep |-> IF na = 0 THEN 0 ELSE sep]>>
                    \o Run(na - 1, la, sep)
                    \o (IF na = 0 THEN <<>> ELSE <<[chars |-> la, sep |-> 0]>>),
      kw_sentence |-> nb + 1,
      kw_off |-> IF at_end THEN lk - KeywordLen - 1 ELSE 0] :
        <<nb, na, lb, la, lk, sep, at_end>> \in
            RunLens \X RunLens \X SentenceChars \X SentenceChars
            \X (SentenceChars \cup {CONTEXT_LIMIT + 100}) \X SepWidths \X BOOLEAN}

InitContext ==
    /\ InitPipe
    /\ IdleClient
    /\ IdleAudit
    /\ fn_arg \in PageTexts /\ fn_calls = <<>> /\ fn_rets = <<>>

ContextStep ==
    /\ fn_calls = <<>>
    /\ fn_calls' = <<"claim_context">>
    /\ fn_rets' = <<ClaimContext(fn_arg)>>
    /\ UNCHANGED <<fn_arg, client_vars, pipe_vars, audit_vars>>

NextContext == ContextStep

SpecContext == InitContext /\ [][NextContext]_vars

\* ------------------------------------------------------------------------
\* The worker loops alone: tasks that make process_task raise or fail,
\* dequeue errors, interrupt signals
\* ------------------------------------------------------------------------
NextLoop ==
    \/ \E q \in {"pdf_processing", "ai_audit"} : \E t \in ForeignTasks(q) : ForeignEnqueue(q, t)
    \/ \E w \in FirstWorkers : dequeue_task(w)
    \/ \E w \in FirstWorkers : DequeueRaises(w)
    \/ \E w \in FirstWorkers : WorkerResume(w)
    \/ \E w \in FirstWorkers : ExtractRaises(w)
    \/ \E w \in FirstWorkers : ExtractFileNotFound(w)
    \/ \E w \in FirstWorkers : AuditRaises(w)
    \/ \E w \in FirstWorkers : AuditReadError(w)
    \/ \E w \in FirstWorkers : Interrupt(w)

\* time.sleep(5) returns: a paused worker that is not interrupted resumes
SpecLoop ==
    /\ Init
    /\ [][NextLoop]_vars
    /\ \A w \in FirstWorkers : WF_vars(WorkerResume(w))

\* ------------------------------------------------------------------------
\* Several worker instances of each stage on the same queues
\* ------------------------------------------------------------------------
\* an upload with company and year given, of a document that yields claims
UploadReport(d) ==
    upload_pdf(d, [filename |-> "report.pdf", company |-> "ACME Corp.", year |-> 2024],
               [openable |-> TRUE, claims |-> Take(AllClaims, MaxClaims)])

NextPool ==
    \/ \E d \in 1..MaxDocs : UploadReport(d)
    \/ \E t \in ForeignTasks("ai_audit") : ForeignEnqueue("ai_audit", t)
    \/ \E w \in Workers : dequeue_task(w)
    \/ \E w \in Workers : WorkerResume(w)
    \/ \E w \in Workers : ExtractProcess(w)
    \/ \E w \in Workers : AuditRaises(w)
    \/ \E w \in Workers : AuditReadError(w)
    \/ \E w \in Workers : AuditProcess(w)

SpecPool == Init /\ [][NextPool]_vars

\* ------------------------------------------------------------------------
\* Workers that can die while they hold a task, and be started again
\* ------------------------------------------------------------------------
NextCrash ==
    \/ \E d \in 1..MaxDocs : UploadReport(d)
    \/ \E t \in ForeignTasks("pdf_processing") : ForeignEnqueue("pdf_processing", t)
    \/ \E w \in FirstWorkers : dequeue_task(w)
    \/ \E w \in FirstWorkers : WorkerResume(w)
    \/ \E w \in FirstWorkers : ExtractRaises(w)
    \/ \E w \in FirstWorkers : ExtractFileNotFound(w)
    \/ \E w \in FirstWorkers : ExtractProcess(w)
    \/ \E w \in FirstWorkers : AuditProcess(w)
    \/ \E w \in FirstWorkers : ExtractCrash(w)
    \/ \E w \in FirstWorkers : AuditCrash(w)
    \/ \E w \in FirstWorkers : WorkerRestart(w)

SpecCrash == Init /\ [][NextCrash]_vars

\* ------------------------------------------------------------------------
\* Two uploads in flight at once
\* ------------------------------------------------------------------------
NextTwoDocs ==
    \/ \E d \in Docs, form \in UploadForms, content \in PdfContents :
          upload_pdf(d, form, content)
    \/ \E w \in FirstWorkers : dequeue_task(w)
    \/ \E w \in FirstWorkers : ExtractProcess(w)
    \/ \E w \in FirstWorkers : AuditProcess(w)

SpecTwoDocs == Init /\ [][NextTwoDocs]_vars

\* ------------------------------------------------------------------------
\* The two worker loops under fair scheduling: `while True:` takes the next
\* task as soon as there is one and runs process_task on it to its end
\* ------------------------------------------------------------------------
NextFlow ==
    \/ \E d \in 1..MaxDocs : UploadReport(d)
    \/ \E w \in FirstWorkers : dequeue_task(w)
    \/ \E w \in FirstWorkers : DequeueRaises(w)
    \/ \E w \in FirstWorkers : WorkerResume(w)
    \/ \E w \in FirstWorkers : ExtractProcess(w)
    \/ \E w \in FirstWorkers : AuditProcess(w)
    \/ \E w \in FirstWorkers : ExtractCrash(w)
    \/ \E w \in FirstWorkers : AuditCrash(w)
    \/ \E w \in FirstWorkers : WorkerRestart(w)

SpecFlow ==
    /\ Init
    /\ [][NextFlow]_vars
    /\ \A w \in FirstWorkers :
          /\ WF_vars(dequeue_task(w))
          /\ WF_vars(ExtractProcess(w))
          /\ WF_vars(AuditProcess(w))

\* no execution of a stage returned False or raised, no worker died
NoFailure == last_run.ret \notin {"False", "raised"} /\ lost = {}

NoOutcome == MkOutcome("none", 0, "", NoText)

InitClient ==
    /\ InitPipe
    /\ IdleAudit
    /\ IdleFn
    /\ c_claims \in ClaimLists
    /\ attempt = 0
    /\ cpc = "loop"
    /\ requests = 0
    /\ waits = <<>>
    /\ result = NoResult
    /\ hist = <<>>
    /\ last = NoOutcome

\* One iteration of the loop on service outcome o; when the loop runs out the
\* return of line 282 is taken in the same step.
DoAttempt(o) ==
    /\ cpc = "loop"
    /\ attempt < max_retries
    /\ LET st == AttemptStep(attempt, c_claims, o) IN
       /\ requests' = requests + 1
       /\ hist' = Append(hist, Branch(o))
       /\ last' = o
       /\ waits' = IF st.wait > 0 THEN Append(waits, st.wait) ELSE waits
       /\ IF st.ret
          THEN /\ cpc' = IF st.raised THEN "raised" ELSE "returned"
               /\ result' = st.result
               /\ attempt' = attempt
          ELSE IF attempt + 1 >= max_retries
          THEN /\ cpc' = "returned"
               /\ result' = LoopExhausted(c_claims)
               /\ attempt' = attempt + 1
          ELSE /\ cpc' = "loop"
               /\ result' = result
               /\ attempt' = attempt + 1
    /\ UNCHANGED <<c_claims, pipe_vars, audit_vars, fn_vars>>

OfKind(k) == {o \in Outcomes : o.kind = k}

PostTimeout == \E o \in OfKind("timeout") : DoAttempt(o)

PostRequestException == \E o \in OfKind("request_exception") : DoAttempt(o)

PostHTTPError == \E o \in OfKind("http_error") : DoAttempt(o)

PostException == \E o \in OfKind("exception") : DoAttempt(o)

PostApiError == \E o \in OfKind("api_error") : DoAttempt(o)

PostNoCandidates == \E o \in OfKind("no_candidates") : DoAttempt(o)

PostInvalidStructure == \E o \in OfKind("invalid_structure") : DoAttempt(o)

PostEmptyParts == \E o \in OfKind("empty_parts") : DoAttempt(o)

PostText == \E o \in OfKind("text") : DoAttempt(o)

NextClient ==
    \/ PostTimeout
    \/ PostRequestException
    \/ PostHTTPError
    \/ PostException
    \/ PostApiError
    \/ PostNoCandidates
    \/ PostInvalidStructure
    \/ PostEmptyParts
    \/ PostText

SpecClient == InitClient /\ [][NextClient]_vars

\* requests.post(..., timeout=30): every request gets its outcome, so the
\* loop goes on while it can
\* the loop does not depend on the claims: lists of at most one claim
InitClientFair == InitClient /\ Len(c_claims) <= 1

SpecClientFair == InitClientFair /\ [][NextClient]_vars /\ WF_vars(NextClient)

\* ========================================================================
\* Properties of the Audit Client (checked under SpecClient)
\* ========================================================================
Contains(tokens, t) == \E i \in 1..Len(tokens) : tokens[i] = t

IsNullOrInt1to5(v) == v.k = "null" \/ (v.k = "int" /\ v.n \in {10, 20, 30, 40, 50})

\* overall_score null and exactly one review per input claim, in order, each
\* with score null and the fixed reason
IsFallbackFor(r, claims) ==
    /\ r.type = "dict"
    /\ r.keys = ResultKeys
    /\ r.overall_score = JNull
    /\ r.claim_reviews.is_list
    /\ Len(r.claim_reviews.items) = Len(claims)
    /\ \A i \in 1..Len(claims) :
          /\ r.claim_reviews.items[i].claim = claims[i].claim
          /\ r.claim_reviews.items[i].page = claims[i].page
          /\ r.claim_reviews.items[i].score = JNull
          /\ r.claim_reviews.items[i].reason = "Could not evaluate due to processing error"

\* C1: call_gemini_ai never raises, and whatever it returns is a mapping that
\* has overall_score, overall_summary and a list claim_reviews.
C1_NeverRaisesWellFormed ==
    /\ cpc # "raised"
    /\ cpc = "returned" =>
          /\ result.type = "dict"
          /\ {"overall_score", "overall_summary", "claim_reviews"} \subseteq result.keys
          /\ result.claim_reviews.is_list

\* C2: in every returned AuditResult, and in the empty-claims result,
\* overall_score and every review score is null or an integer in [1,5].
C2_ScoresNullOrInt1to5 ==
    /\ IsNullOrInt1to5(EmptyAudit.overall_score)
    /\ cpc = "returned" =>
          /\ IsNullOrInt1to5(result.overall_score)
          /\ \A i \in 1..Len(result.claim_reviews.items) :
                IsNullOrInt1to5(result.claim_reviews.items[i].score)

\* C3: one call sends at most 3 requests to the reasoning service.
C3_AtMostThreeRequests == requests <= 3

C3_Witness == cpc = "returned" /\ requests = 3

\* C4: three timeouts in a row give the fallback: overall_score null, a summary
\* containing "Max retries exceeded", one review per input claim with score null.
C4_ThreeTimeoutsFallback ==
    (cpc = "returned" /\ hist = <<"timeout", "timeout", "timeout">>) =>
        /\ IsFallbackFor(result, c_claims)
        /\ Contains(result.overall_summary, "Max retries exceeded")

C4_Witness ==
    /\ cpc = "returned"
    /\ hist = <<"timeout", "timeout", "timeout">>
    /\ Len(c_claims) = 2
    /\ requests = 3

\* the three attempts all ended in a timeout, a transport error, an HTTP error
\* or a rate-limit signal
ExhaustedByErrors ==
    /\ cpc = "returned"
    /\ Len(hist) = 3
    /\ \A i \in 1..3 :
          hist[i] \in {"timeout", "transport", "http_other", "http_429", "api_rate"}

C6_ParseOrValidationFailure ==
    (hist # <<>> /\ hist[Len(hist)] \in {"parse_failure", "validation_failure"}) =>
        IF Len(hist) < 3
        THEN cpc = "loop" /\ requests = Len(hist)
        ELSE /\ cpc = "returned"
             /\ result.overall_score = JNull
             /\ result.overall_summary = <<"Failed to parse AI response">>
             /\ result.claim_reviews = MkReviews(TRUE, <<>>)
             /\ "raw_response" \in result.keys
             /\ result.raw_response = Min(last.text.len, 500)

\* C7: an unexpected error on any attempt ends the call at once: it is the last
\* request sent, and the fallback with one null-score review per claim and the
\* fixed reason is returned.
C7_UnexpectedAborts ==
    \A i \in 1..Len(hist) :
        hist[i] = "unexpected" =>
            /\ i = Len(hist)
            /\ requests = i
            /\ cpc = "returned"
            /\ IsFallbackFor(result, c_claims)
            /\ Contains(result.overall_summary, "Unexpected error: ")

C7_Witness ==
    /\ cpc = "returned"
    /\ hist = <<"timeout", "unexpected">>
    /\ requests = 2
    /\ Len(c_claims) = 2

\* C8: when the claim list of a document is empty, neither the queue worker nor
\* the batch main invokes the Audit Client (no request is sent), and the audit
\* result has overall_score null, empty claim_reviews and a fixed summary: "No
\* sustainability claims found in document", or, in the batch main for a record
\* tagged with a processing error, "Audit failed: PDF processing failed".
C8_EmptyClaimsNoClient ==
    (last_audit.by # "none" /\ audit_input.claims = <<>>) =>
        /\ ~ last_audit.invoked
        /\ last_audit.requests = 0
        /\ last_audit.ai_summary.type = "dict"
        /\ last_audit.ai_summary.keys = ResultKeys
        /\ last_audit.ai_summary.overall_score = JNull
        /\ last_audit.ai_summary.claim_reviews = MkReviews(TRUE, <<>>)
        /\ last_audit.ai_summary.overall_summary =
              IF last_audit.by = "batch" /\ audit_input.processing_error
              THEN <<"Audit failed: ", "PDF processing failed">>
              ELSE <<"No sustainability claims found in document">>

C8_Witness ==
    /\ last_audit.by = "worker"
    /\ audit_input.present
    /\ audit_input.claims = <<>>
    /\ ~ last_audit.invoked
    /\ last_audit.ai_summary = EmptyAudit

\* C9: a process_task of the extract worker or of the audit worker that returns
\* True has enqueued exactly one task, on the next stage's queue (ai_audit,
\* embeddings); one that returns False or raises has enqueued no task on any
\* queue.
C9_OneSuccessorOnSuccess ==
    /\ last_run.ret = "True" =>
          last_run.enq = [NoEnq EXCEPT ![NextQueue(last_run.stage)] = 1]
    /\ last_run.ret \in {"False", "raised"} => last_run.enq = NoEnq

C9_Witness ==
    /\ last_run.stage = "audit"
    /\ last_run.ret = "True"
    /\ last_run.enq["embeddings"] = 1
    /\ Len(queue["embeddings"]) = 1

\* C10: when the document cannot be opened, the extract stage fails the
\* document (process_task does not return True) and enqueues no ai_audit task.
C10_OpenFailureNotEnqueued ==
    (last_run.stage = "extract" /\ last_run.processing_error) =>
        /\ last_run.ret # "True"
        /\ last_run.enq["ai_audit"] = 0

\* C11: whatever the reasoning service answers, an audit task whose evidence
\* file is readable, and whose file write and rpush do not fail, ends with the
\* audit record written, exactly one embeddings task enqueued and process_task
\* returning True.
C11_ServiceErrorsNeverFailAudit ==
    (last_run.stage = "audit" /\ last_run.cause \notin {"fields", "read", "write", "enqueue"}) =>
        /\ last_run.ret = "True"
        /\ last_run.wrote
        /\ last_run.enq = [NoEnq EXCEPT !["embeddings"] = 1]

\* C12: an error raised while a worker handles a task (a task without the
\* fields process_task indexes, a failing dequeue) never ends the worker
\* loop: a worker is stopped only if it received an interrupt signal, and a
\* worker paused by the handler goes back to dequeuing unless it is interrupted.
C12_LoopSurvivesErrors ==
    /\ [](\A w \in Workers : wpc[w] = "stopped" => w \in interrupted)
    /\ \A w \in FirstWorkers :
          (wpc[w] = "paused") ~> (wpc[w] = "idle" \/ w \in interrupted)

\* the audit worker is dequeuing again after a task without its fields
C12_Witness ==
    /\ last_run.stage = "audit" /\ last_run.ret = "raised" /\ last_run.cause = "fields"
    /\ wpc["a1"] = "idle" /\ "a1" \notin interrupted

\* the tasks of document d waiting on queue n
Waiting(d, n) == Cardinality({i \in 1..Len(queue[n]) : DocOf(queue[n][i]) = d})

\* C13: with several workers of a stage on one queue, every task enqueued
\* for a document is either still waiting or was returned by exactly one
\* dequeue, and no two workers hold the same document's task.
C13_EachTaskToOneWorker ==
    /\ \A d \in Docs, n \in QueueNames : sent[d][n] = taken[d][n] + Waiting(d, n)
    /\ \A w1 \in Workers, w2 \in Workers :
          (w1 # w2 /\ wpc[w1] = "processing" /\ wpc[w2] = "processing"
              /\ DocOf(held[w1]) \in Docs)
          => held[w1] # held[w2]

\* both audit workers are processing, one of them a document's task
C13_Witness ==
    /\ wpc["a1"] = "processing" /\ wpc["a2"] = "processing"
    /\ DocOf(held["a2"]) \in Docs

\* C14: when the audit worker reads the file named by its task's
\* intermediate_path, the file holds the evidence of that task's document.
C14_OwnEvidenceAtRead ==
    \A w \in AuditWorkers :
        (wpc[w] = "processing" /\ AuditFields \subseteq held[w].keys
            /\ Readable(held[w].intermediate_path))
        => intermediate[held[w].intermediate_path].document_id = held[w].document_id

\* C15: a task held by a worker that crashed is never delivered again and
\* has no successor: it was dequeued once, is on no queue and with no
\* worker, and nothing was enqueued for its document on the next queue.
C15_CrashedTaskIsLost ==
    \A d \in Docs, n \in {"pdf_processing", "ai_audit"} :
        <<d, n>> \in lost =>
            /\ taken[d][n] = 1
            /\ Waiting(d, n) = 0
            /\ \A w \in Workers : DocOf(held[w]) # d
            /\ sent[d][IF n = "pdf_processing" THEN "ai_audit" ELSE "embeddings"] = 0
            /\ sent[d]["embeddings"] = 0

\* the audit worker crashed with a document's task and is dequeuing again
C15_Witness ==
    /\ \E d \in Docs : <<d, "ai_audit">> \in lost
    /\ wpc["a1"] = "idle"

\* C16: a stage that fails enqueues nothing, and every queue receives at
\* most one task for an uploaded document.
C16_NoRetry ==
    /\ \A d \in Docs, n \in QueueNames : sent[d][n] <= 1
    /\ last_run.ret \in {"False", "raised"} => last_run.enq = NoEnq

\* the audit of a document failed and its task is on no queue
C16_Witness ==
    /\ last_run.stage = "audit" /\ last_run.ret = "False"
    /\ \E d \in Docs : sent[d]["ai_audit"] = 1 /\ taken[d]["ai_audit"] = 1
    /\ queue["ai_audit"] = <<>> /\ wpc["a1"] = "idle"

\* C17: a document's ai_audit task is enqueued only after its
\* pdf_processing task was dequeued, and its embeddings task only after its
\* ai_audit task was dequeued.
C17_StageOrder ==
    \A d \in Docs :
        /\ sent[d]["ai_audit"] > 0 => taken[d]["pdf_processing"] > 0
        /\ sent[d]["embeddings"] > 0 => taken[d]["ai_audit"] > 0 /\ sent[d]["ai_audit"] > 0

\* a document reached the embeddings queue
C17_Witness == \E d \in Docs : sent[d]["embeddings"] = 1 /\ last_run.stage = "audit"

\* C18: when the upsert into the persistent store fails (and rpush works),
\* the audit record stays written, the embeddings task is enqueued and
\* process_task returns True.
C18_StoreFailureNoRollback ==
    (last_run.stage = "audit" /\ last_run.store = "failed" /\ last_run.cause # "enqueue") =>
        /\ last_run.wrote
        /\ last_run.enq = [NoEnq EXCEPT !["embeddings"] = 1]
        /\ last_run.ret = "True"

\* an audit whose upsert failed and that returned True
C18_Witness ==
    /\ last_run.stage = "audit" /\ last_run.store = "failed" /\ last_run.ret = "True"
    /\ \E f \in FileNames : processed[f].present

\* C19: deduplicate_metrics is idempotent: applied to its own result it
\* returns that result unchanged.
C19_DedupeIdempotent ==
    (fn_calls = <<"deduplicate_metrics", "deduplicate_metrics">>) => fn_rets[2] = fn_rets[1]

\* applied twice to a bundle that the first application changed
C19_Witness ==
    /\ fn_calls = <<"deduplicate_metrics", "deduplicate_metrics">>
    /\ fn_rets[1] # fn_arg
    /\ Len(fn_rets[1].scope1_emissions_tco2e) = 2

\* C20: claim bounding (prioritize_claims and the worker's bounding step)
\* returns no more claims than given and only claims of its input; when the
\* input exceeds the cap, no kept claim of worse priority rank comes before
\* a kept claim of better priority rank.
C20_BoundingKeepsRanking ==
    (fn_calls # <<>> /\ fn_calls[1] \in {"prioritize_claims", "worker_bound"}) =>
        LET kept == fn_rets[1] IN
        /\ Len(kept) <= Len(fn_arg)
        /\ \A i \in 1..Len(kept) : \E j \in 1..Len(fn_arg) : kept[i] = fn_arg[j]
        /\ Len(fn_arg) > MAX_CLAIMS =>
              \A i \in 1..Len(kept), j \in 1..Len(kept) :
                  i < j => priority(kept[i].claim) <= priority(kept[j].claim)

\* C21: call_gemini_ai is never called with more than 15 claims, by the
\* queue worker or by the batch main, whatever the document's claim count.
C21_ClientClaimsWithinCap ==
    last_audit.invoked => Len(last_audit.claims) <= MAX_CLAIMS

\* C22: when the deduplicated generic-metric list has more than 50 entries,
\* the bounded list (of sample_generic_metrics and of the worker) has at most
\* 50 entries, holds of every page at most max(1, 50 div distinct_pages)
\* entries, which are that page's first ones, and lists pages in ascending order.
C22_SizeBoundPerPageQuota ==
    (fn_calls # <<>> /\ fn_calls[1] \in {"sample_generic_metrics", "worker_size_bound"}
        /\ Len(fn_arg) > GENERIC_CAP) =>
        LET kept == fn_rets[1]
            quota == Max(1, GENERIC_CAP \div Cardinality(PagesOf(fn_arg)))
        IN
        /\ Len(kept) <= GENERIC_CAP
        /\ \A p \in PagesOf(fn_arg) :
              /\ Len(OfPage(kept, p)) <= quota
              /\ OfPage(kept, p) = Take(OfPage(fn_arg, p), Len(OfPage(kept, p)))
        /\ \A i \in 1..Len(kept), j \in 1..Len(kept) : i < j => kept[i].page <= kept[j].page

\* the metrics of a page_metrics entry
AllMetrics(entry) ==
    entry.scope1_emissions_tco2e \o entry.scope2_emissions_tco2e \o entry.generic_metrics

\* C23: every metric of the evidence record (scope 1, scope 2, generic;
\* from text and from tables) has a value greater than zero.
C23_MetricsPositive ==
    (fn_calls = <<"page_metrics">>) =>
        \A i \in 1..Len(AllMetrics(fn_rets[1])) :
            LET v == AllMetrics(fn_rets[1])[i].value IN
            v.kind = "inf" \/ (v.kind = "num" /\ v.n > 0)

\* a table row with a negative number gave no metric
C23_Witness ==
    /\ fn_calls = <<"page_metrics">>
    /\ fn_arg.tables # <<>> /\ Len(fn_arg.tables[1]) = 2
    /\ fn_arg.tables[1][2].label = "scope 1"
    /\ fn_arg.tables[1][2].cells = <<<<"-", "5">>>>
    /\ AllMetrics(fn_rets[1]) = <<>>

\* null, or an integer from 2020 to 2100
NullOrTargetYear(v) ==
    v = JNull \/ (v.k = "int" /\ 10 * MIN_TARGET_YEAR <= v.n /\ v.n <= 10 * MAX_TARGET_YEAR)

\* C24: the target_year of a claim occurrence is null or an integer in
\* [2020, 2100], and so is the target_year recorded in its evidence, which
\* is present exactly when has_target_year is set.
C24_TargetYearInRange ==
    (fn_calls = <<"claim_years">>) =>
        /\ NullOrTargetYear(fn_rets[1].target_year)
        /\ NullOrTargetYear(fn_rets[1].evidence.target_year)
        /\ fn_rets[1].evidence.has_target_year <=> fn_rets[1].evidence.target_year # JNull

\* "by 2019 goal 2030": the first pattern finds 2019, a later one gives 2030
C24_Witness ==
    /\ fn_calls = <<"claim_years">>
    /\ fn_arg = <<Word("by"), Number(<<2, 0, 1, 9>>), Word("goal"), Number(<<2, 0, 3, 0>>)>>
    /\ fn_rets[1].target_year = JInt(2030)
    /\ fn_rets[1].evidence.target_year = JInt(2030)

\* C25: a claim keyword that appears twice in the text of a page yields two
\* claim occurrences for that page.
C25_TwoOccurrencesTwoClaims ==
    (fn_calls = <<"detect_claims">>) =>
        \A k \in 1..Len(CLAIM_KEYWORDS) :
            Cardinality({i \in 1..Len(fn_arg) : fn_arg[i] = Word(CLAIM_KEYWORDS[k])}) = 2
            => Cardinality({i \in 1..Len(fn_rets[1]) :
                               fn_rets[1][i].claim = CLAIM_KEYWORDS[k]}) = 2

\* C26: the context of every claim occurrence is at most 500 characters
\* long, whether it comes from the sentences around the keyword or from the
\* character window.
C26_ContextAtMost500 ==
    (fn_calls = <<"claim_context">>) => fn_rets[1].chars <= CONTEXT_LIMIT

\* C27: in a run where no stage fails and no worker crashes, with the
\* workers scheduled fairly, every task put on pdf_processing eventually
\* leads to a task of the same document on ai_audit, and that one to a task
\* of the document on embeddings (the embeddings task never comes before
\* the ai_audit task).
C27_TaskFlowsThroughStages ==
    /\ [](\A d \in 1..MaxDocs : sent[d]["embeddings"] > 0 => sent[d]["ai_audit"] > 0)
    /\ ([]NoFailure) =>
          \A d \in 1..MaxDocs :
              (sent[d]["pdf_processing"] > 0)
                  ~> (sent[d]["ai_audit"] > 0 /\ sent[d]["embeddings"] > 0)

C27_Witness ==
    /\ NoFailure
    /\ \E d \in 1..MaxDocs :
          /\ taken[d]["pdf_processing"] > 0 /\ taken[d]["ai_audit"] > 0
          /\ sent[d]["embeddings"] > 0

\* C28: whatever the service answers to the successive requests,
\* call_gemini_ai comes to an end, having sent at most 3 requests and slept
\* at most 2 times.
C28_TerminatesWithinBudget ==
    /\ <>(cpc # "loop")
    /\ [](requests <= 3 /\ Len(waits) <= 2)

C28_Witness == cpc = "returned" /\ requests = 3 /\ Len(waits) = 2 /\ Len(hist) = 3

\* C29: when there are more than 15 claims, bounding (prioritize_claims and
\* the worker's bounding step) keeps 15 of them and drops no claim whose key
\* (priority rank, page) is strictly better than the key of a kept claim.
C29_KeepsTheBestFifteen ==
    (fn_calls # <<>> /\ fn_calls[1] \in {"prioritize_claims", "worker_bound"}
     /\ Len(fn_arg) > MAX_CLAIMS) =>
        LET kept == fn_rets[1]
            Times(s, x) == Cardinality({i \in 1..Len(s) : s[i] = x})
            dropped == {fn_arg[i] : i \in {j \in 1..Len(fn_arg) :
                                              Times(fn_arg, fn_arg[j]) > Times(kept, fn_arg[j])}}
        IN  /\ Len(kept) = MAX_CLAIMS
            /\ \A x \in dropped : \A i \in 1..Len(kept) :
                  ~ (KeyLE(x, kept[i]) /\ ~ KeyLE(kept[i], x))

C31_UnitCarrierPreferred ==
    (fn_calls # <<>> /\ fn_calls[1] = "deduplicate_metrics") =>
        \A key \in DOMAIN fn_arg :
            LET given == fn_arg[key]
                out == fn_rets[1][key]
                Keyed(e) == e.is_dict /\ e.value # JNull /\ e.page # JNull
                SameKey(a, b) == a.value.n = b.value.n /\ a.page.n = b.page.n
                Carries(e) == e.has_unit /\ e.unit # ""
            IN  \A i \in 1..Len(given) :
                    (Keyed(given[i]) /\ Carries(given[i])) =>
                        \A k \in 1..Len(out) :
                            SameKey(out[k], given[i]) => Carries(out[k])

\* C32: an attempt that fails and is not the last one is followed by exactly
\* one wait before the next request: 3 seconds after a timeout or a
\* transport error (an HTTP error status other than 429 included), 2 seconds
\* after a parse or validation failure; the last attempt is followed by no
\* wait.
C32_FixedBackoff ==
    [][(requests' = requests + 1) =>
          LET b == hist'[Len(hist')] IN
          /\ (attempt < max_retries - 1 /\ b \in {"timeout", "transport", "http_other"})
                => (waits' = Append(waits, 3) /\ cpc' = "loop")
          /\ (attempt < max_retries - 1 /\ b \in {"parse_failure", "validation_failure"})
                => (waits' = Append(waits, 2) /\ cpc' = "loop")
          /\ (attempt = max_retries - 1) => (waits' = waits)]_vars

\* a timeout then a parse failure: the third request is about to be sent
C32_Witness ==
    /\ cpc = "loop" /\ requests = 2
    /\ hist = <<"timeout", "parse_failure">>
    /\ waits = <<3, 2>>

\* C33: after a rate-limit signal on the k-th attempt (k = 1, 2) the wait
\* before the next attempt is 10 * k seconds for rate / quota wording in an
\* error body and 15 * k seconds for status 429, i.e. 1.5 times the
\* error-body wait of the same attempt.
C33_ProgressiveBackoff ==
    [][(requests' = requests + 1 /\ attempt < max_retries - 1) =>
          LET b == hist'[Len(hist')]
              k == attempt + 1
              body_wait == 10 * k
              status_wait == 15 * k
          IN  /\ 2 * status_wait = 3 * body_wait
              /\ b = "api_rate" => (waits' = Append(waits, body_wait) /\ cpc' = "loop")
              /\ b = "http_429" => (waits' = Append(waits, status_wait) /\ cpc' = "loop")]_vars

\* rate wording in an error body on the first attempt, 429 on the second
C33_Witness ==
    /\ cpc = "loop" /\ requests = 2
    /\ hist = <<"api_rate", "http_429">>
    /\ waits = <<10, 30>>

\* C34: when the attempts before the k-th (k <= 3) all ended in a retryable
\* failure and the k-th response passes validation, call_gemini_ai returns
\* the k-th response as parsed, unchanged, and sends no further request.
C34_FirstValidResponseReturned ==
    \A i \in 1..Len(hist) :
        hist[i] = "valid" =>
            /\ i = Len(hist) /\ requests = i
            /\ cpc = "returned"
            /\ result = parse_ai_json(last.text)
            /\ \A j \in 1..(i - 1) :
                  hist[j] \in {"timeout", "transport", "http_other", "http_429", "api_rate",
                               "parse_failure", "validation_failure"}

\* a timeout, a response that fails validation, then a valid response
C34_Witness ==
    /\ hist = <<"timeout", "validation_failure", "valid">>
    /\ cpc = "returned" /\ requests = 3
    /\ result = parse_ai_json(last.text)

\* the error messages that name a rate or a quota as a word of the message
MentionsRateOrQuota(msg) == msg \in {"Quota exceeded for model", "Rate limit reached"}

\* C35: a 200 response whose embedded error message carries no rate or quota
\* wording, a response with no candidates, and a candidate without
\* content/parts each end the call on the attempt that received them: the
\* fallback for the input claims is returned and no further request is sent.
C35_TerminalResponsesEndTheCall ==
    (/\ hist # <<>>
     /\ \/ last.kind \in {"no_candidates", "invalid_structure"}
        \/ /\ last.kind = "api_error"
           /\ last.msg # ERROR_NOT_A_MAPPING
           /\ ~MentionsRateOrQuota(last.msg))
        => /\ cpc = "returned"
           /\ requests = Len(hist)
           /\ IsFallbackFor(result, c_claims)

\* "Failed to generate content" on the first attempt: the substring test
\* finds "rate" inside "generate", the client sleeps 10 s and goes on
C35_GenerateTakenForRate ==
    /\ last.kind = "api_error" /\ last.msg = "Failed to generate content"
    /\ hist = <<"api_rate">> /\ requests = 1
    /\ cpc = "loop" /\ waits = <<10>>

Appended(queue_name) == queue'[queue_name][Len(queue'[queue_name])]

EmptyText == [tokens |-> <<>>, scope_matches |-> <<>>, numeric_matches |-> <<>>]

ReportText ==
    [tokens |-> <<Word("net zero"), Word("by"), Number(<<2, 0, 3, 0>>)>>,
     scope_matches |-> <<[scope |-> "scope1", val |-> <<"5">>]>>,
     numeric_matches |-> <<[val |-> <<"5", "5">>, unit |-> "%"]>>]

ReportTables == <<<<HeaderRow, [label |-> "scope 1", cells |-> <<<<"5", "0">>>>]>>>>

\* a page with text and a table, each of which may fail to extract, and a
\* page for which extract_text returns None
DocPages ==
    {[text |-> ReportText, text_raises |-> tr, tables |-> ReportTables, tables_raise |-> br] :
        tr \in BOOLEAN, br \in BOOLEAN}
    \cup {[text |-> EmptyText, text_raises |-> FALSE, tables |-> <<>>, tables_raise |-> FALSE]}

Documents == [openable : BOOLEAN, pages : SeqsUpTo(DocPages, MaxPages) \ {<<>>}]

\* a text extraction whose failure leaves the page loop
PageText_propagates(page) == [raised |-> page.text_raises, text |-> page.text]

\* lines 373-378: text = ""; try: text = page.extract_text() or ""
\* except Exception: count the failure and go on
PageText(page) ==
    [raised |-> FALSE, text |-> IF page.text_raises THEN EmptyText ELSE page.text]

\* extract_scope_from_tables, lines 264-302: extract_tables() raising is
\* caught inside the function, which returns the empty lists
PageTables(page) == IF page.tables_raise THEN <<>> ELSE page.tables

\* what one iteration of the page loop works on; page_num = i + 1
PageOf(page, page_num) ==
    [page_num |-> page_num,
     scope_matches |-> PageText(page).text.scope_matches,
     tables |-> PageTables(page),
     numeric_matches |-> PageText(page).text.numeric_matches]

\* page_metrics: one entry appended per iteration (lines 392-397)
LoopMetrics(pages) == [i \in 1..Len(pages) |-> PageMetrics(PageOf(pages[i], i))]

\* claims: the claims detected on each page, appended in page order
RECURSIVE LoopClaims(_, _)
LoopClaims(pages, i) ==
    IF i > Len(pages) THEN <<>>
    ELSE DetectClaims(PageText(pages[i]).text.tokens, i) \o LoopClaims(pages, i + 1)

\* an exception that leaves the loop reaches the `except Exception` of line 442
LoopRaises(pages) == \E i \in 1..Len(pages) : PageText(pages[i]).raised

FailedTexts(pages) == Cardinality({i \in 1..Len(pages) : pages[i].text_raises})

\* process_pdf, lines 349-464
ProcessDocument(doc) ==
    IF ~ doc.openable \/ LoopRaises(doc.pages)
    THEN [keys |-> {"schema_version", "processed_at", "page_metrics", "claims",
                    "processing_error", "stats"},
          page_metrics |-> <<>>, claims |-> <<>>,
          stats |-> [total_pages |-> IF doc.openable THEN Len(doc.pages) ELSE 0]]
    ELSE [keys |-> {"schema_version", "processed_at", "page_metrics", "claims", "stats"},
          page_metrics |-> LoopMetrics(doc.pages), claims |-> LoopClaims(doc.pages, 1),
          stats |-> [total_pages |-> Len(doc.pages),
                     text_extraction_failures |-> FailedTexts(doc.pages),
                     table_extraction_failures |-> 0]]

InitDocument ==
    /\ InitPipe
    /\ IdleClient
    /\ IdleAudit
    /\ fn_arg \in Documents /\ fn_calls = <<>> /\ fn_rets = <<>>

ProcessDocumentStep ==
    /\ fn_calls = <<>>
    /\ fn_calls' = <<"process_pdf">>
    /\ fn_rets' = <<ProcessDocument(fn_arg)>>
    /\ UNCHANGED <<fn_arg, client_vars, pipe_vars, audit_vars>>

NextDocument == ProcessDocumentStep

SpecDocument == InitDocument /\ [][NextDocument]_vars

\* the scope metrics a page has from its tables alone
TableMetrics(page, scope, page_num) ==
    deduplicate_metrics_on_page(extract_scope_from_tables(PageTables(page), scope, page_num))

\* C38: for a document of N pages that opens, process_pdf returns N
\* page_metrics entries numbered 1..N in page order and no processing_error,
\* whichever pages fail text or table extraction; a page whose text
\* extraction fails has no generic metrics, no scope metrics other than
\* those of its tables, and no claims.
C38_PageFailuresAreLocal ==
    (fn_calls = <<"process_pdf">> /\ fn_arg.openable) =>
        LET r == fn_rets[1]
            N == Len(fn_arg.pages)
        IN  /\ Len(r.page_metrics) = N
            /\ \A i \in 1..N : r.page_metrics[i].page = i
            /\ "processing_error" \notin r.keys
            /\ \A i \in 1..N :
                  fn_arg.pages[i].text_raises =>
                      /\ r.page_metrics[i].generic_metrics = <<>>
                      /\ r.page_metrics[i].scope1_emissions_tco2e
                            = TableMetrics(fn_arg.pages[i], "scope1", i)
                      /\ r.page_metrics[i].scope2_emissions_tco2e
                            = TableMetrics(fn_arg.pages[i], "scope2", i)
                      /\ \A j \in 1..Len(r.claims) : r.claims[j].page # i

\* three pages: the text of the first fails, the tables of the second fail,
\* the third extracts; the claims are those of pages 2 and 3
C38_Witness ==
    /\ fn_calls = <<"process_pdf">> /\ fn_arg.openable
    /\ Len(fn_arg.pages) = 3
    /\ fn_arg.pages[1].text_raises /\ ~ fn_arg.pages[1].tables_raise
    /\ ~ fn_arg.pages[2].text_raises /\ fn_arg.pages[2].tables_raise
    /\ fn_arg.pages[3].text = ReportText
    /\ ~ fn_arg.pages[3].text_raises /\ ~ fn_arg.pages[3].tables_raise
    /\ Len(fn_rets[1].page_metrics) = 3
    /\ Len(fn_rets[1].page_metrics[1].scope1_emissions_tco2e) = 1
    /\ fn_rets[1].page_metrics[2].scope1_emissions_tco2e # <<>>
    /\ Len(fn_rets[1].page_metrics[3].scope1_emissions_tco2e) = 2
    /\ Len(fn_rets[1].claims) = 2
    /\ fn_rets[1].claims[1].page = 2 /\ fn_rets[1].claims[2].page = 3

\* ------------------------------------------------------------------------
\* processor.py: normalize_unit on the characters of a unit spelling, and
\* the spellings the second group of NUMERIC_PATTERN captures under re.I.
\* A spelling is the sequence of its characters ("sup3" is the superscript
\* three); "" is the group that did not take part in the match.
\* ------------------------------------------------------------------------
LowerChar(c) ==
    CASE c = "T" -> "t" [] c = "C" -> "c" [] c = "O" -> "o" [] c = "E" -> "e"
         [] c = "N" -> "n" [] c = "S" -> "s" [] c = "K" -> "k" [] c = "G" -> "g"
         [] c = "P" -> "p" [] c = "R" -> "r" [] c = "M" -> "m" [] c = "W" -> "w"
         [] c = "H" -> "h" [] c = "L" -> "l"
      [] OTHER -> c

UpperChar(c) ==
    CASE c = "t" -> "T" [] c = "c" -> "C" [] c = "o" -> "O" [] c = "e" -> "E"
         [] c = "n" -> "N" [] c = "s" -> "S" [] c = "k" -> "K" [] c = "g" -> "G"
         [] c = "p" -> "P" [] c = "r" -> "R" [] c = "m" -> "M" [] c = "w" -> "W"
         [] c = "h" -> "H" [] c = "l" -> "L"
      [] OTHER -> c

\* str.lower()
LowerStr(str) == [i \in 1..Len(str) |-> LowerChar(str[i])]

UpperStr(str) == [i \in 1..Len(str) |-> UpperChar(str[i])]

Whitespace == {" ", "\n"}

\* str.strip()
RECURSIVE StripStr(_)
StripStr(str) ==
    IF str # <<>> /\ str[1] \in Whitespace THEN StripStr(Tail(str))
    ELSE IF str # <<>> /\ str[Len(str)] \in Whitespace
    THEN StripStr(SubSeq(str, 1, Len(str) - 1))
    ELSE str

\* `sub in str`
HasSub(str, sub) ==
    \E i \in 1..(Len(str) - Len(sub) + 1) : SubSeq(str, i, i + Len(sub) - 1) = sub

U_tCO2e == <<"t", "C", "O", "2", "e">>
U_tCO2 == <<"t", "C", "O", "2">>
U_GWh == <<"G", "W", "h">>
U_MWh == <<"M", "W", "h">>
U_kWh == <<"k", "W", "h">>
U_percent == <<"p", "e", "r", "c", "e", "n", "t">>
U_pct == <<"%">>
U_tonnes == <<"t", "o", "n", "n", "e", "s">>
U_tonne == <<"t", "o", "n", "n", "e">>
U_t == <<"t">>
U_kg == <<"k", "g">>
U_CO2e == <<"C", "O", "2", "e">>
U_CO2 == <<"C", "O", "2">>

normalize_unit_spelling(unit) ==
    IF unit = <<>> THEN <<>>
    ELSE LET u == StripStr(LowerStr(unit)) IN
         IF \/ HasSub(u, LowerStr(U_tCO2e))
            \/ HasSub(u, LowerStr(U_tonnes \o <<" ">> \o U_CO2e))
            \/ HasSub(u, LowerStr(U_t \o <<" ">> \o U_CO2e))
         THEN U_tCO2e
         ELSE IF HasSub(u, LowerStr(U_tCO2)) \/ HasSub(u, LowerStr(U_t \o <<" ">> \o U_CO2))
         THEN U_tCO2e
         ELSE IF HasSub(u, LowerStr(U_GWh)) THEN U_GWh
         ELSE IF HasSub(u, LowerStr(U_MWh)) THEN U_MWh
         ELSE IF HasSub(u, LowerStr(U_kWh)) THEN U_kWh
         ELSE IF HasSub(u, U_percent) \/ u = U_pct THEN U_pct
         ELSE IF HasSub(u, U_tonne) \/ u = U_t THEN U_tonnes
         ELSE IF u = U_kg THEN U_kg
         ELSE u

\* \s+ : a run of one to MaxGap whitespace characters
Gaps == SeqsUpTo(Whitespace, MaxGap) \ {<<>>}

\* tCO2e | tCO2 | tonnes\s+CO2e? | t\s+CO2e?
Co2Units ==
    {U_tCO2e, U_tCO2}
    \cup {head \o g \o tail : head \in {U_tonnes, U_t}, g \in Gaps, tail \in {U_CO2e, U_CO2}}

\* the alternatives of the unit group as written in the pattern; "liters?"
\* is never taken because "L" comes first and matches its first letter
PatternUnits ==
    Co2Units \cup {U_kg, U_tonne, U_tonnes, U_pct, U_percent, U_MWh, U_kWh, U_GWh,
                   <<"L">>, <<"m", "3">>, <<"m", "sup3">>}

\* re.I: each alternative as written, in lower case and in upper case
UnitSpellings ==
    {<<>>} \cup PatternUnits \cup {LowerStr(s) : s \in PatternUnits}
           \cup {UpperStr(s) : s \in PatternUnits}

InitUnit ==
    /\ InitPipe
    /\ IdleClient
    /\ IdleAudit
    /\ fn_arg \in UnitSpellings /\ fn_calls = <<>> /\ fn_rets = <<>>

\* normalize_unit applied to the captured spelling, then to what it returned
NormalizeUnitStep ==
    /\ Len(fn_calls) < 2
    /\ fn_calls' = Append(fn_calls, "normalize_unit")
    /\ fn_rets' = Append(fn_rets, normalize_unit_spelling(
                                      IF fn_calls = <<>> THEN fn_arg ELSE fn_rets[1]))
    /\ UNCHANGED <<fn_arg, client_vars, pipe_vars, audit_vars>>

NextUnit == NormalizeUnitStep

SpecUnit == InitUnit /\ [][NextUnit]_vars

\* the units of the canonical set: the CO2-equivalent unit, the energy
\* units, percent, the mass units, the volume units in lower case, no unit
CanonicalUnits ==
    {<<>>, U_tCO2e, U_GWh, U_MWh, U_kWh, U_pct, U_tonnes, U_kg,
     <<"l">>, <<"m", "3">>, <<"m", "sup3">>}

SameLetters(a, b) == LowerStr(a) = LowerStr(b)

\* C39: for every spelling the unit group of the number+unit pattern can
\* capture, normalize_unit returns a unit of the canonical set; every
\* CO2-equivalent spelling gives tCO2e, every kWh / MWh / GWh spelling gives
\* kWh / MWh / GWh, "%" and "percent" give "%"; normalizing the returned
\* unit again returns it unchanged.
C39_CanonicalUnits ==
    fn_calls # <<>> =>
        /\ fn_rets[1] \in CanonicalUnits
        /\ (\E s \in Co2Units : SameLetters(fn_arg, s)) => fn_rets[1] = U_tCO2e
        /\ \A e \in {U_kWh, U_MWh, U_GWh} : SameLetters(fn_arg, e) => fn_rets[1] = e
        /\ (SameLetters(fn_arg, U_pct) \/ SameLetters(fn_arg, U_percent)) => fn_rets[1] = U_pct
        /\ Len(fn_rets) = 2 => fn_rets[2] = fn_rets[1]

\* "tonnes CO2" is taken for the mass unit; "t", two spaces, "CO2e" comes
\* back in lower case with its two spaces
C39_Co2SpellingsMissed ==
    \/ /\ fn_arg = U_tonnes \o <<" ">> \o U_CO2
       /\ fn_rets = <<U_tonnes, U_tonnes>>
    \/ /\ fn_arg = U_t \o <<" ", " ">> \o U_CO2e
       /\ fn_rets = <<LowerStr(fn_arg), LowerStr(fn_arg)>>

====
